---------------------------- MODULE Spec2Model ----------------------------
(***************************************************************************)
(* A model of the scanner repository: the Puzzle Hunter and Generator main *)
(* loops, their status / total-keys / hit-log files, the RateLimiter of    *)
(* puzzleweb/utils.py and the dashboard's read_json.                       *)
(*                                                                         *)
(* The module holds several specifications over one set of variables:      *)
(*   SpecLimiter  several threads calling RateLimiter.wait() on one        *)
(*                instance, against a discrete wall clock;                 *)
(*   SpecFiles    a scanner rewriting its status and total-keys files      *)
(*                chunk by chunk while the dashboard reads them;           *)
(*   Spec         one scanner process, the Puzzle Hunter or the Generator, *)
(*                from its start to its exit, with its files held by       *)
(*                content.                                                 *)
(* Each specification leaves the variables of the others untouched.        *)
(***************************************************************************)
EXTENDS Integers, Sequences, FiniteSets, TLC

(***************************************************************************)
(* Bounds of the model.  Durations are counted in clock ticks; the code's  *)
(* values (API_RATE_LIMIT = 0.25 s, MAX_API_CALLS = 2000000) are scaled    *)
(* down, the algorithms only compare and subtract them.                    *)
(***************************************************************************)
\* RateLimiter.min_interval, in ticks (config.API_RATE_LIMIT)
MinInterval == 2
\* RateLimiter.max_calls, the ceiling of the limiter under check (config.MAX_API_CALLS)
MaxCalls == 3
\* number of threads that share the limiter in SpecLimiter
NumCallers == 2
\* ticks the clock may run past the time the ceiling can first be reached
ClockSlack == 1
\* chunks json.dump writes for one document
DocChunks == 2
\* write_status calls per scanner in SpecFiles
MaxWrites == 2
\* STATUS_INTERVAL, in ticks (30.0 s in both scripts)
StatusInterval == 2
\* puzzle_btc.BATCH_SIZE, keys per batch of the Puzzle Hunter (25 in the code)
PuzBatchSize == 2
\* keys one Puzzle Hunter session tests before the model stops generating batches
MaxSessionKeys == 4
\* distinct private keys the generator of the model draws from; key 1 is the
\* one whose address is TARGET_ADDRESS
NumKeys == 2
\* the largest total a total-keys file holds when the model starts
PriorTotal == 5
\* keys of one Puzzle Hunter session whose address is TARGET_ADDRESS
MaxMatches == 2
\* the largest final_balance, in satoshi, a lookup answers
MaxSatoshi == 1
\* crypto_balance_checker.BATCH_SIZE, keys per batch of the Generator (10 in the code)
GenBatchSize == 2
\* crypto_balance_checker.BUFFER_SIZE, the LogBuffer threshold (100 in the code)
BufferSize == 2
\* hit lines one Generator session hands to its LogBuffer
MaxLines == 2
\* the Generator prints its statistics every 1000 keys: that period, scaled
PrintInterval == 4
\* PUZZLE_71_MIN and PUZZLE_71_MAX, scaled from 2^70 and 2^71 - 1: the range
\* is a power of two wide, so its size needs one bit more than its offsets
PUZZLE_71_MIN == 4
PUZZLE_71_MAX == 7
\* the largest batch_size generate_puzzle71_batch is called with
MaxBatch == 3
\* starts of the Generator over one set of files in SpecRestarts
MaxStarts == 4
\* keys counted in SpecProgress
MaxProgressKeys == 60
\* the largest speed in a status file the dashboard reads
MaxSpeed == 1
\* /api/status requests in SpecDashboard
MaxRequests == 2
\* the cap of the dashboard's speed history (60 in app.py)
MAX_POINTS == 3
\* updateDashboard calls in SpecHistory
MaxPolls == 5
\* the longest session, in seconds, in SpecEta
MaxElapsed == 3

VARIABLES
    \* ---- RateLimiter instance (puzzleweb/utils.py) and the wall clock
    clock,          \* time.time(), in ticks
    total_calls,    \* RateLimiter.total_calls
    last_call,      \* RateLimiter.last_call
    lock,           \* RateLimiter.lock: the caller holding it, or NoHolder
    \* ---- the callers of SpecLimiter
    cpc,            \* caller -> position inside wait()
    cwake,          \* caller -> time its time.sleep() ends
    ctmp,           \* caller -> value read by `self.total_calls += 1`
    cseen,          \* caller -> total_calls its last finished call found at the check
    cresult,        \* caller -> outcome of its last finished call
    granted,        \* number of wait() calls that returned normally
    grants,         \* the last_call values stamped, in order
    \* ---- the scanner process under check
    script,         \* which script runs: "generator" or "puzzle"
    pc,             \* its position
    exit_code,      \* the exit status of the process, -1 while it runs
    total_start,    \* main: total_start
    last_status_time, \* main: last_status_time
    now,            \* main: now
    ws_rec,         \* write_status: data
    ws_ret,         \* where the caller of write_status goes on
    \* ---- files of the scanner, by content (the targets of SpecFiles)
    statusFile,     \* STATUS_PATH
    totalFile,      \* TOTAL_KEYS_FILE
    puzLog,         \* found_funds.log of the Puzzle Hunter
    \* ---- Puzzle Hunter main()
    keys_checked,
    matches_found,
    last_key_hex,
    private_keys,   \* the batch
    kidx,           \* index of the next key of the batch
    retry,          \* check_btc_balance: retry
    balance,        \* what the last check_btc_balance returned
    \* ---- Generator main_async() and its LogBuffer
    total_checked,
    eth_hits,
    btc_hits,
    batch_len,      \* len(batch)
    bidx,           \* process_batch: index of the next key of the batch
    batch_eth_hits, \* process_batch: eth_hits
    batch_btc_hits, \* process_batch: btc_hits
    buffer,         \* LogBuffer.buffer
    genLog,         \* found_funds.log of the Generator
    fakeMarker,     \* FAKE_HIT_MARKER exists
    \* ---- history, for the properties only
    added,          \* the lines handed to LogBuffer.add, in order
    printed,        \* the last iteration printed the progress block
    gen_failed,     \* candidates of the last batch whose generation raised
    bootFile,       \* the total-keys file the process found when it started
    lastWs,         \* how the last write_status call ended
    targets_seen,   \* keys of this session whose address was TARGET_ADDRESS
    last_match_at,  \* keys_checked at the last of them
    refused,        \* the limiter has refused a call of this process
    stopped,        \* why the loop was left, and the status writes since
    call,           \* the last check_btc_balance call: what it has done
    \* ---- the file system of SpecFiles
    dir,            \* path -> inode linked at that name, or NoFile
    ino,            \* file -> inode -> content, the chunks written so far
    finished,       \* file -> the documents whose json.dump and close completed
    wpc,            \* scanner -> position inside write_status
    wkind,          \* scanner -> the file write_status is on: status, then total
    wcount,         \* scanner -> number of write_status calls begun
    rpc,            \* the dashboard's position inside read_json
    rfile,          \* the file read_json was called on
    rfd,            \* the inode read_json holds open
    robs,           \* what the last read_json found
    \* ---- generate_puzzle71_batch (SpecKeyGen)
    kg_pc,          \* position inside generate_puzzle71_batch
    kg_n,           \* batch_size
    kg_batch,       \* the keys returned so far
    kg_raws,        \* the random_value each of them was made from
    kg_rejected,    \* the random_values drawn and rejected
    \* ---- process lifetimes (SpecRestarts)
    starts,         \* how many times the script has been started
    \* ---- process_batch, check by check (SpecGather)
    inflight,       \* the balance checks started and not completed: <<asset, candidate>>
    results,        \* the balance checks completed: <<asset, candidate, balance>>
    \* ---- the dashboard server (SpecDashboard)
    dash_files,     \* GEN_STATUS and PUZ_STATUS as the server finds them, by content
    response,       \* what the last /api/status request was answered
    requests,       \* the /api/status requests answered
    \* ---- the dashboard page (SpecHistory)
    speedHistoryLabels,
    speedHistoryGen,
    speedHistoryPuz,
    samples,        \* every sample updateDashboard has pushed, in arrival order
    \* ---- write_status of the Puzzle Hunter, its ETA (SpecEta)
    eta_in,         \* keys_checked, total_keys and elapsed of the last call
    eta_out,        \* the speed and the eta_seconds it computed
    \* ---- base58_encode (SpecBase58)
    b58_in,         \* the bytes of the last call
    b58_out,        \* the text it returned, one character per element
    \* ---- the dashboard's status paths (SpecPaths)
    loc_files,      \* the status files that exist at the sibling and /opt locations
    dash_started,   \* app.py has been imported
    status_path,    \* GEN_STATUS and PUZ_STATUS: the location each names
    sibling_at_start,   \* whether the sibling file existed when app.py was imported
    path_response,  \* what the last /api/status request was answered
    path_requests   \* the /api/status requests answered

limiterVars == <<clock, total_calls, last_call, lock>>
callerVars == <<cpc, cwake, ctmp, cseen, cresult, granted, grants>>
fileVars == <<dir, ino, finished, wpc, wkind, wcount, rpc, rfile, rfd, robs>>
procVars == <<pc, exit_code, total_start, last_status_time, now>>
wsVars == <<ws_rec, ws_ret>>
diskVars == <<statusFile, totalFile, puzLog>>
puzVars == <<keys_checked, matches_found, last_key_hex, private_keys, kidx, retry, balance>>
genVars == <<total_checked, eth_hits, btc_hits, batch_len, bidx, batch_eth_hits, batch_btc_hits,
             buffer>>
genAll == <<genVars, genLog, fakeMarker, added, printed, gen_failed>>
histVars == <<bootFile, lastWs, targets_seen, last_match_at, refused, stopped>>
scanVars == <<procVars, wsVars, diskVars, puzVars, genAll, histVars, call>>
kgVars == <<kg_pc, kg_n, kg_batch, kg_raws, kg_rejected>>
lifeVars == <<starts>>
gatherVars == <<inflight, results>>
dashVars == <<dash_files, response, requests>>
chartVars == <<speedHistoryLabels, speedHistoryGen, speedHistoryPuz, samples>>
etaVars == <<eta_in, eta_out>>
b58Vars == <<b58_in, b58_out>>
pathVars == <<loc_files, dash_started, status_path, sibling_at_start, path_response,
              path_requests>>
extraVars == <<b58Vars, pathVars>>
sideVars == <<gatherVars, dashVars, chartVars, etaVars, extraVars>>
vars == <<script, limiterVars, callerVars, fileVars, scanVars, kgVars, lifeVars, sideVars>>
\* what each specification leaves alone
outsideLimiter == <<script, fileVars, scanVars, kgVars, lifeVars, sideVars>>
outsideFiles == <<limiterVars, callerVars, scanVars, kgVars, lifeVars, sideVars>>
outsideScan == <<script, lock, callerVars, fileVars, genAll, kgVars, lifeVars, sideVars>>
outsideGen == <<script, callerVars, fileVars, puzVars, puzLog, targets_seen, last_match_at, refused,
                kgVars, lifeVars, sideVars>>
outsideKeyGen == <<script, limiterVars, callerVars, fileVars, scanVars, lifeVars, sideVars>>

(***************************************************************************)
(*                     RateLimiter  (puzzleweb/utils.py)                   *)
(***************************************************************************)
NoHolder == 0
Callers == 1..NumCallers
\* time.time() is seconds since the epoch: far more than min_interval past
\* the initial last_call = 0, so the first call never sleeps.
ClockStart == MinInterval + StatusInterval
MaxClock == ClockStart + MaxCalls * MinInterval + ClockSlack

\* RateLimiter.__init__
LimiterInit ==
    /\ total_calls = 0
    /\ last_call = 0
    /\ lock = NoHolder

\* `with self.lock:` can be entered only while no caller holds the lock
LockAvailable_NoMutex == TRUE
LockAvailable == lock = NoHolder

\* `if self.total_calls >= self.max_calls: raise`
AtCeiling_OffByOne(n) == n > MaxCalls
AtCeiling(n) == n >= MaxCalls

\* `time_passed = now - self.last_call`; the sleep, if any, lasts
\* min_interval - time_passed and ends at now + that
SleepEnd_Short(t, last) == IF t - last < MinInterval THEN t + (MinInterval - (t - last)) - 1 ELSE t
SleepEnd(t, last) ==
    LET time_passed == t - last
    IN  IF time_passed < MinInterval THEN t + (MinInterval - time_passed) ELSE t

\* the wall clock advances
Tick ==
    /\ clock < MaxClock
    /\ clock' = clock + 1
    /\ UNCHANGED <<total_calls, last_call, lock, callerVars, outsideLimiter>>

\* wait(): `with self.lock:` acquired
Acquire(c) ==
    /\ cpc[c] = "idle"
    /\ LockAvailable
    /\ lock' = c
    /\ cpc' = [cpc EXCEPT ![c] = "check"]
    /\ UNCHANGED <<clock, total_calls, last_call, cwake, ctmp, cseen, cresult, granted, grants, outsideLimiter>>

\* `with self.lock:` left by the exception: the lock is released
ReleaseOnRaise_StillHeld(l, c) == l
ReleaseOnRaise(l, c) == IF l = c THEN NoHolder ELSE l

\* wait(): the ceiling check raises; leaving the with block releases the lock
Refuse(c) ==
    /\ cpc[c] = "check"
    /\ AtCeiling(total_calls)
    /\ lock' = ReleaseOnRaise(lock, c)
    /\ cpc' = [cpc EXCEPT ![c] = "idle"]
    /\ cseen' = [cseen EXCEPT ![c] = total_calls]
    /\ cresult' = [cresult EXCEPT ![c] = "refused"]
    /\ UNCHANGED <<clock, total_calls, last_call, cwake, ctmp, granted, grants, outsideLimiter>>

\* wait(): the ceiling check passes; now = time.time(); sleep if needed
Check(c) ==
    /\ cpc[c] = "check"
    /\ ~AtCeiling(total_calls)
    /\ cseen' = [cseen EXCEPT ![c] = total_calls]
    /\ cwake' = [cwake EXCEPT ![c] = SleepEnd(clock, last_call)]
    /\ cpc' = [cpc EXCEPT ![c] = "sleep"]
    /\ UNCHANGED <<clock, total_calls, last_call, lock, ctmp, cresult, granted, grants, outsideLimiter>>

\* wait(): time.sleep() is over (it lasts at least the time asked for);
\* `self.last_call = time.time()`
Stamp(c) ==
    /\ cpc[c] = "sleep"
    /\ clock >= cwake[c]
    /\ last_call' = clock
    /\ grants' = Append(grants, clock)
    /\ cpc' = [cpc EXCEPT ![c] = "count"]
    /\ UNCHANGED <<clock, total_calls, lock, cwake, ctmp, cseen, cresult, granted, outsideLimiter>>

\* wait(): `self.total_calls += 1`, the read
CountRead(c) ==
    /\ cpc[c] = "count"
    /\ ctmp' = [ctmp EXCEPT ![c] = total_calls]
    /\ cpc' = [cpc EXCEPT ![c] = "store"]
    /\ UNCHANGED <<clock, total_calls, last_call, lock, cwake, cseen, cresult, granted, grants, outsideLimiter>>

\* wait(): `self.total_calls += 1`, the write
CountWrite(c) ==
    /\ cpc[c] = "store"
    /\ total_calls' = ctmp[c] + 1
    /\ ctmp' = [ctmp EXCEPT ![c] = 0]
    /\ cpc' = [cpc EXCEPT ![c] = "release"]
    /\ UNCHANGED <<clock, last_call, lock, cwake, cseen, cresult, granted, grants, outsideLimiter>>

\* wait(): the with block ends, the lock is released, the call returns
Release(c) ==
    /\ cpc[c] = "release"
    /\ lock' = IF lock = c THEN NoHolder ELSE lock
    /\ granted' = granted + 1
    /\ cresult' = [cresult EXCEPT ![c] = "granted"]
    /\ cwake' = [cwake EXCEPT ![c] = 0]
    /\ cpc' = [cpc EXCEPT ![c] = "idle"]
    /\ UNCHANGED <<clock, total_calls, last_call, ctmp, cseen, grants, outsideLimiter>>

(***************************************************************************)
(*        write_status / save_total_keys against read_json                 *)
(*   generator/crypto_balance_checker.py 90-123, puzzleweb/puzzle_btc.py   *)
(*   58-108, dashboard/app.py 422-427                                      *)
(*                                                                         *)
(* A file name is linked to an inode; open(.., "w") truncates the inode    *)
(* linked at the name or links a fresh one, os.replace relinks the target  *)
(* name to the inode of the source name, and a reader keeps the inode it   *)
(* opened whatever the names do afterwards.                                *)
(***************************************************************************)
NoFile == 0
Scripts == {"generator", "puzzle"}
\* STATUS_PATH and TOTAL_KEYS_FILE of each script
Files == Scripts \X {"status", "total"}
Paths == Files \X {"target", "tmp"}
\* a target, its tmp sibling and one replaced inode a reader still holds
Inodes == 1..3

\* the name json.dump writes under: the ".tmp" sibling of the target
WritePath_InPlace(f) == <<f, "target">>
WritePath(f) == <<f, "tmp">>

TargetPath(f) == <<f, "target">>

\* json.load parses the content: the whole of one document, nothing else
IsDocument(c) == Len(c) = DocChunks /\ \A i \in 1..Len(c) : c[i] = c[1]

\* the inodes of file f that a name or the open reader refers to
Referenced(d, f, rf, ri) ==
    {d[<<f, "target">>], d[<<f, "tmp">>]} \cup (IF rf = f THEN {ri} ELSE {})
\* an unreferenced inode is gone: its content is dropped
Sweep(tbl, d, rf, ri) ==
    [f \in Files |-> [i \in Inodes |->
        IF i \in Referenced(d, f, rf, ri) THEN tbl[f][i] ELSE <<>>]]
FreshInode(d, f, rf, ri) ==
    CHOOSE i \in Inodes : i \notin Referenced(d, f, rf, ri)
        /\ \A j \in Inodes : j \notin Referenced(d, f, rf, ri) => i <= j

FilesInit ==
    /\ dir = [p \in Paths |-> NoFile]
    /\ ino = [f \in Files |-> [i \in Inodes |-> <<>>]]
    /\ finished = [f \in Files |-> {}]
    /\ wpc = [s \in Scripts |-> "idle"]
    /\ wkind = [s \in Scripts |-> "status"]
    /\ wcount = [s \in Scripts |-> 0]
    /\ rpc = "idle"
    /\ rfile = <<"generator", "status">>
    /\ rfd = NoFile
    /\ robs = <<"none", 0>>

\* the main loop calls write_status
WBegin(s) ==
    /\ s = script
    /\ wpc[s] = "idle"
    /\ wcount[s] < MaxWrites
    /\ wcount' = [wcount EXCEPT ![s] = @ + 1]
    /\ wkind' = [wkind EXCEPT ![s] = "status"]
    /\ wpc' = [wpc EXCEPT ![s] = "open"]
    /\ UNCHANGED <<script, dir, ino, finished, rpc, rfile, rfd, robs, outsideFiles>>

\* `with open(tmp_path, "w") as f:` truncates the file or creates it
WOpen(s) ==
    LET f == <<s, wkind[s]>>
        p == WritePath(f)
        i == IF dir[p] # NoFile THEN dir[p] ELSE FreshInode(dir, f, rfile, rfd)
    IN  /\ wpc[s] = "open"
        /\ dir' = [dir EXCEPT ![p] = i]
        /\ ino' = [ino EXCEPT ![f][i] = <<>>]
        /\ wpc' = [wpc EXCEPT ![s] = "dump"]
        /\ UNCHANGED <<script, finished, wkind, wcount, rpc, rfile, rfd, robs, outsideFiles>>

\* json.dump(data, f) writes the next chunk; after the last one the with
\* block closes the file
WDump(s) ==
    LET f == <<s, wkind[s]>>
        i == dir[WritePath(f)]
        c == Append(ino[f][i], wcount[s])
    IN  /\ wpc[s] = "dump"
        /\ ino' = [ino EXCEPT ![f][i] = c]
        /\ IF Len(c) = DocChunks
              THEN /\ finished' = [finished EXCEPT ![f] = @ \cup {wcount[s]}]
                   /\ wpc' = [wpc EXCEPT ![s] = "replace"]
              ELSE UNCHANGED <<finished, wpc>>
        /\ UNCHANGED <<script, dir, wkind, wcount, rpc, rfile, rfd, robs, outsideFiles>>

\* os.replace(tmp_path, STATUS_PATH), then save_total_keys;
\* os.replace(tmp, TOTAL_KEYS_FILE), then write_status returns
WReplace(s) ==
    LET f == <<s, wkind[s]>>
        src == WritePath(f)
        d == IF src = TargetPath(f) THEN dir
             ELSE [dir EXCEPT ![TargetPath(f)] = dir[src], ![src] = NoFile]
    IN  /\ wpc[s] = "replace"
        /\ dir' = d
        /\ ino' = Sweep(ino, d, rfile, rfd)
        /\ IF wkind[s] = "status"
              THEN /\ wkind' = [wkind EXCEPT ![s] = "total"]
                   /\ wpc' = [wpc EXCEPT ![s] = "open"]
              ELSE /\ wkind' = [wkind EXCEPT ![s] = "status"]
                   /\ wpc' = [wpc EXCEPT ![s] = "idle"]
        /\ UNCHANGED <<script, finished, wcount, rpc, rfile, rfd, robs, outsideFiles>>

\* an I/O error, an interruption or a kill ends write_status where it is;
\* what was written so far stays on disk
WAbort(s) ==
    /\ wpc[s] \in {"open", "dump", "replace"}
    /\ wpc' = [wpc EXCEPT ![s] = "idle"]
    /\ wkind' = [wkind EXCEPT ![s] = "status"]
    /\ UNCHANGED <<script, dir, ino, finished, wcount, rpc, rfile, rfd, robs, outsideFiles>>

\* read_json: `with open(path, "r") as f:`; a missing file raises and
\* read_json returns None
ROpen(f) ==
    /\ rpc = "idle"
    /\ rfile' = f
    /\ IF dir[TargetPath(f)] = NoFile
          THEN /\ robs' = <<"missing", 0>>
               /\ UNCHANGED <<rpc, rfd>>
          ELSE /\ rfd' = dir[TargetPath(f)]
               /\ rpc' = "open"
               /\ robs' = <<"none", 0>>
    /\ UNCHANGED <<script, dir, ino, finished, wpc, wkind, wcount, outsideFiles>>

\* read_json: json.load(f) reads what the inode holds now, then the file
\* is closed; content that does not parse raises and read_json returns None
RLoad ==
    LET c == ino[rfile][rfd]
    IN  /\ rpc = "open"
        /\ robs' = IF IsDocument(c) THEN <<"document", c[1]>> ELSE <<"unparsable", 0>>
        /\ rpc' = "idle"
        /\ rfd' = NoFile
        /\ ino' = Sweep(ino, dir, rfile, NoFile)
        /\ UNCHANGED <<script, dir, finished, wpc, wkind, wcount, rfile, outsideFiles>>

(***************************************************************************)
(*                 The scanner processes and their files                   *)
(*                                                                         *)
(* One scanner process runs: the script is chosen when the model starts    *)
(* (the two scripts share no file and no memory).  Its files are held by   *)
(* content: SpecFiles shows that a target changes only at os.replace.      *)
(* Floating-point fields of the status record (speed, elapsed, coverage,   *)
(* ETA) and the timestamps are left out of the record.                     *)
(***************************************************************************)
AbsentFile == [kind |-> "absent"]
\* content json.load rejects, or whose "total" int() rejects
GarbageFile == [kind |-> "garbage"]
\* json.dump({"total": int(total)}, f)
TotalJson(n) == [kind |-> "json", total |-> n]

\* load_total_keys()
load_total_keys_Ignore(file) == 0
load_total_keys(file) ==
    IF file.kind = "absent" THEN 0
    ELSE IF file.kind = "garbage" THEN 0
    ELSE file.total

\* write_status: `save_total_keys(total_keys)` / `save_total_keys(total_global)`
SavedTotal_Session(rec) == IF rec.script = "puzzle" THEN rec.keys_checked ELSE rec.keys_tested
SavedTotal(rec) == rec.total_keys_tested

MAX_RETRIES == 3

Keys == 1..NumKeys
TargetKey == 1
\* private_key_to_btc_address: one key of the range has the target's address
Address(k) == <<"address", k>>
TARGET_ADDRESS == Address(TargetKey)

\* the total main() passes to write_status: `total_start + keys_checked`
PuzTotalKeys_Session(ts, kc) == kc
PuzTotalKeys(ts, kc) == ts + kc

\* write_status: data (puzzle_btc.py)
PuzStatus(kc, total, last, found) ==
    [kind |-> "json", script |-> "puzzle", keys_checked |-> kc,
     total_keys_tested |-> total, last_key_hex |-> last, found |-> found]

\* what check_btc_balance returns: None, or the float
\* balance_satoshi / 100000000, held as that fraction
SATOSHI_PER_BTC == 100000000
Unset == [kind |-> "unset", num |-> 0, den |-> 1]
NoValue == [kind |-> "none", num |-> 0, den |-> 1]
BalanceBtc(sat) == [kind |-> "float", num |-> sat, den |-> SATOSHI_PER_BTC]

\* one call of check_btc_balance: its rate_limiter.wait() calls, its
\* requests, its RETRY_DELAY sleeps, its log_funds_found calls, how it
\* ended and the document of its successful lookup
NoCall == [waits |-> 0, requests |-> 0, sleeps |-> 0, logs |-> 0, ended |-> "none",
           present |-> FALSE, sat |-> 0]
NewCall == [NoCall EXCEPT !.ended = "running"]

\* the found flag of the periodic and of the final status records:
\* `found=(matches_found > 0)`
found_flag_Never(n) == FALSE
found_flag(n) == n > 0

\* the found flag of the status written on a match: `found=True`
MatchFound_IfVerified(b) == b.kind = "float" /\ b.num > 0
MatchFound(b) == TRUE

\* the loop is left by an interruption or by an error
\* (attempts: the write_status calls its handler makes; writes: the status
\* files those calls have replaced)
NotStopped == [cause |-> "none", attempts |-> 0, writes |-> 0]
Stop(cause, calls) == stopped' = [cause |-> cause, attempts |-> calls, writes |-> 0]

\* where main() goes on after the status write of a match: the for loop
\* takes the next key (`# For now, continue searching`)
AfterMatch_Stop == "exit0"
AfterMatch == "key"

\* positions inside the try block of main()
LoopPcs == {"gen", "key", "match", "verify", "stamp"}
HandlerRets == {"exit0", "exit1"}
InTry == pc \in LoopPcs \/ (pc \in {"ws_status", "ws_total"} /\ ws_ret \notin HandlerRets)

\* a call of write_status(keys_checked, total_start + keys_checked, ...)
\* from main(), which goes on at `ret` when it returns
PuzCallWriteStatus(kc, last, found, ret) ==
    /\ ws_rec' = PuzStatus(kc, PuzTotalKeys(total_start, kc), last, found)
    /\ ws_ret' = ret
    /\ lastWs' = "running"
    /\ pc' = "ws_status"

\* main(): total_start = load_total_keys(); rate_limiter = RateLimiter(..);
\* the counters
PuzBoot ==
    /\ script = "puzzle"
    /\ pc = "boot"
    /\ total_start' = load_total_keys(totalFile)
    /\ bootFile' = totalFile
    /\ total_calls' = 0
    /\ last_call' = 0
    /\ keys_checked' = 0
    /\ matches_found' = 0
    /\ last_status_time' = 0
    /\ last_key_hex' = 0
    /\ pc' = "gen"
    /\ UNCHANGED <<clock, exit_code, now, wsVars, diskVars, private_keys, kidx, retry, balance,
                   lastWs, targets_seen, last_match_at, refused, stopped, call, outsideScan>>

\* main(): private_keys = generate_puzzle71_batch(BATCH_SIZE)
PuzGenBatch ==
    /\ script = "puzzle"
    /\ pc = "gen"
    /\ keys_checked + PuzBatchSize <= MaxSessionKeys
    /\ \E b \in [1..PuzBatchSize -> Keys] :
          /\ targets_seen + Cardinality({i \in DOMAIN b : Address(b[i]) = TARGET_ADDRESS}) <= MaxMatches
          /\ private_keys' = b
    /\ kidx' = 1
    /\ pc' = "key"
    /\ UNCHANGED <<limiterVars, exit_code, total_start, last_status_time, now, wsVars, diskVars,
                   keys_checked, matches_found, last_key_hex, retry, balance, histVars, call,
                   outsideScan>>

\* main(): the next key of the batch: count it, derive its address, compare
PuzKey ==
    /\ script = "puzzle"
    /\ pc = "key"
    /\ kidx <= Len(private_keys)
    /\ LET k == private_keys[kidx]
       IN  /\ keys_checked' = keys_checked + 1
           /\ last_key_hex' = k
           /\ kidx' = kidx + 1
           /\ IF Address(k) = TARGET_ADDRESS
                 THEN /\ pc' = "match"
                      /\ targets_seen' = targets_seen + 1
                      /\ last_match_at' = keys_checked + 1
                 ELSE UNCHANGED <<pc, targets_seen, last_match_at>>
    /\ UNCHANGED <<limiterVars, exit_code, total_start, last_status_time, now, wsVars, diskVars,
                   matches_found, private_keys, retry, balance, bootFile, lastWs, refused,
                   stopped, call, outsideScan>>

\* main(): private_key_to_btc_address raises; `except Exception` writes
\* the status and returns 1
PuzDeriveError ==
    /\ script = "puzzle"
    /\ pc = "key"
    /\ kidx <= Len(private_keys)
    /\ keys_checked' = keys_checked + 1
    /\ last_key_hex' = private_keys[kidx]
    /\ PuzCallWriteStatus(keys_checked + 1, private_keys[kidx], found_flag(matches_found), "exit1")
    /\ Stop("error", 1)
    /\ UNCHANGED <<limiterVars, exit_code, total_start, last_status_time, now, diskVars,
                   matches_found, private_keys, kidx, retry, balance, bootFile,
                   targets_seen, last_match_at, refused, call, outsideScan>>

\* log_funds_found: `with open("found_funds.log", "a")`: one block is written
\* after what the file holds
log_funds_found_Truncate(log, block) == <<block>>
log_funds_found(log, block) == Append(log, block)

\* main(): log_funds_found(..), matches_found += 1, then check_btc_balance
PuzMatchLog ==
    /\ script = "puzzle"
    /\ pc = "match"
    /\ puzLog' = log_funds_found(puzLog, "match")
    /\ matches_found' = matches_found + 1
    /\ retry' = 0
    /\ call' = NewCall
    /\ pc' = "verify"
    /\ UNCHANGED <<limiterVars, exit_code, total_start, last_status_time, now, wsVars,
                   statusFile, totalFile, keys_checked, last_key_hex, private_keys, kidx,
                   balance, histVars, outsideScan>>

\* main(): log_funds_found cannot append to found_funds.log and raises
PuzMatchLogError ==
    /\ script = "puzzle"
    /\ pc = "match"
    /\ PuzCallWriteStatus(keys_checked, last_key_hex, found_flag(matches_found), "exit1")
    /\ Stop("error", 1)
    /\ UNCHANGED <<limiterVars, exit_code, total_start, last_status_time, now, diskVars,
                   puzVars, bootFile, targets_seen, last_match_at, refused, call, outsideScan>>

\* check_btc_balance: `for retry in range(MAX_RETRIES)`
InRange(r) == r < MAX_RETRIES
\* check_btc_balance: `if retry < MAX_RETRIES - 1`: sleep RETRY_DELAY
Backoff_Always(r) == TRUE
Backoff(r) == r < MAX_RETRIES - 1

\* check_btc_balance: the exceptions its `except Exception` catches, of
\* those an attempt can raise: the limiter's refusal, requests.get failing,
\* raise_for_status, response.json() or data[address]['final_balance']
\* failing, log_funds_found failing
ErrorKinds == {"limit", "network", "bad_status", "malformed", "log_fails"}
Caught_RequestErrorsOnly(e) == e \in {"network", "bad_status"}
Caught(e) == TRUE

\* check_btc_balance: `if balance_btc > 0: log_funds_found(..)`
LogsFunds_NonNegative(b) == b.num >= 0
LogsFunds(b) == b.num > 0

\* check_btc_balance has returned b: main() writes the status of the match
PuzVerified(b, c) ==
    /\ balance' = b
    /\ call' = c
    /\ PuzCallWriteStatus(keys_checked, last_key_hex, MatchFound(b), AfterMatch)
    /\ UNCHANGED <<retry, stopped, exit_code>>

\* check_btc_balance: this attempt failed, by HTTP 429 or by an exception
\* the retry loop caught: sleep RETRY_DELAY unless it was the last attempt,
\* then the next attempt, or None when there is none (a 429 on the last
\* attempt returns None at once)
PuzAttemptFailed(c, is429) ==
    LET c1 == IF Backoff(retry) THEN [c EXCEPT !.sleeps = @ + 1] ELSE c
    IN  IF InRange(retry + 1) /\ (is429 => Backoff(retry))
            THEN /\ retry' = retry + 1
                 /\ call' = c1
                 /\ UNCHANGED <<pc, balance, wsVars, lastWs, stopped, exit_code>>
            ELSE PuzVerified(NoValue, [c1 EXCEPT !.ended = "gave_up"])

\* an exception leaves check_btc_balance: main()'s `except Exception`
PuzEscape(c) ==
    /\ call' = c
    /\ PuzCallWriteStatus(keys_checked, last_key_hex, found_flag(matches_found), "exit1")
    /\ Stop("error", 1)
    /\ UNCHANGED <<retry, balance, exit_code>>

\* check_btc_balance: an attempt raised the exception e
PuzAttemptRaised(c, e) == IF Caught(e) THEN PuzAttemptFailed(c, FALSE) ELSE PuzEscape(c)

\* check_btc_balance: rate_limiter.wait() raises at the ceiling
PuzVerifyRefused ==
    /\ script = "puzzle"
    /\ pc = "verify"
    /\ AtCeiling(total_calls)
    /\ refused' = TRUE
    /\ PuzAttemptRaised([call EXCEPT !.waits = @ + 1], "limit")
    /\ UNCHANGED <<limiterVars, total_start, last_status_time, now, diskVars,
                   keys_checked, matches_found, last_key_hex, private_keys, kidx,
                   bootFile, targets_seen, last_match_at, outsideScan>>

\* what one request can answer: HTTP 429, an exception, a document without
\* the address, a document with the address and its final_balance
HttpOutcomes == {"429", "network", "bad_status", "malformed", "log_fails", "absent", "present"}
Satoshis == 0..MaxSatoshi

\* check_btc_balance: rate_limiter.wait() grants the call (after its sleep),
\* then the request and what it answers.  The wait reads the clock: the
\* time passed since the last read is added, up to ClockSlack; the length
\* of the RETRY_DELAY sleeps is not modelled, only their number.
PuzVerifyAttempt(outcome, sat) ==
    /\ script = "puzzle"
    /\ pc = "verify"
    /\ ~AtCeiling(total_calls)
    /\ \E d \in 0..ClockSlack :
          /\ SleepEnd(clock + d, last_call) <= MaxClock
          /\ clock' = SleepEnd(clock + d, last_call)
          /\ last_call' = SleepEnd(clock + d, last_call)
    /\ total_calls' = total_calls + 1
    /\ LET c == [call EXCEPT !.waits = @ + 1, !.requests = @ + 1]
           b == BalanceBtc(sat)
       IN  CASE outcome = "429" ->
                    /\ sat = 0
                    /\ PuzAttemptFailed(c, TRUE)
                    /\ UNCHANGED puzLog
             [] outcome \in {"network", "bad_status", "malformed"} ->
                    /\ sat = 0
                    /\ PuzAttemptRaised(c, outcome)
                    /\ UNCHANGED puzLog
             [] outcome = "log_fails" ->
                    /\ LogsFunds(b)
                    /\ PuzAttemptRaised(c, outcome)
                    /\ UNCHANGED puzLog
             [] outcome = "absent" ->
                    /\ sat = 0
                    /\ PuzVerified(BalanceBtc(0), [c EXCEPT !.ended = "lookup"])
                    /\ UNCHANGED puzLog
             [] OTHER ->
                    /\ puzLog' = IF LogsFunds(b) THEN log_funds_found(puzLog, "verified") ELSE puzLog
                    /\ PuzVerified(b, [c EXCEPT !.ended = "lookup", !.present = TRUE, !.sat = sat,
                                                !.logs = IF LogsFunds(b) THEN @ + 1 ELSE @])
    /\ UNCHANGED <<total_start, last_status_time, now, statusFile, totalFile,
                   keys_checked, matches_found, last_key_hex, private_keys, kidx,
                   bootFile, targets_seen, last_match_at, refused, outsideScan>>

\* main(): `if (now - last_status_time) >= STATUS_INTERVAL:`
periodic_due_Strict(t, last) == t - last > StatusInterval
periodic_due(t, last) == t - last >= StatusInterval

\* main(): the batch is done: `now = time.time()` and the periodic status.
\* The scanner reads the clock here and in RateLimiter.wait only: the time
\* that has passed since its last read is added at the read.
PuzBatchEnd ==
    /\ script = "puzzle"
    /\ pc = "key"
    /\ kidx > Len(private_keys)
    /\ \E d \in 0..StatusInterval :
          /\ clock + d <= MaxClock
          /\ clock' = clock + d
    /\ now' = clock'
    /\ IF periodic_due(now', last_status_time)
          THEN PuzCallWriteStatus(keys_checked, last_key_hex, found_flag(matches_found), "stamp")
          ELSE /\ pc' = "gen"
               /\ UNCHANGED <<wsVars, lastWs>>
    /\ UNCHANGED <<total_calls, last_call, lock, exit_code, total_start, last_status_time, diskVars, puzVars,
                   bootFile, targets_seen, last_match_at, refused, stopped, call, outsideScan>>

\* main(): `last_status_time = now`
PuzStamp ==
    /\ script = "puzzle"
    /\ pc = "stamp"
    /\ last_status_time' = now
    /\ pc' = "gen"
    /\ UNCHANGED <<limiterVars, exit_code, total_start, now, wsVars, diskVars, puzVars,
                   histVars, call, outsideScan>>

\* main(): KeyboardInterrupt inside the try block
PuzInterrupt ==
    /\ script = "puzzle"
    /\ InTry
    /\ PuzCallWriteStatus(keys_checked, last_key_hex, found_flag(matches_found), "exit0")
    /\ Stop("interrupt", 1)
    /\ UNCHANGED <<limiterVars, exit_code, total_start, last_status_time, now, diskVars,
                   puzVars, bootFile, targets_seen, last_match_at, refused, call, outsideScan>>

\* write_status: the status file is dumped to its tmp file and replaced
WsStatus ==
    /\ pc = "ws_status"
    /\ statusFile' = ws_rec
    /\ stopped' = IF ws_ret \in HandlerRets THEN [stopped EXCEPT !.writes = @ + 1] ELSE stopped
    /\ pc' = "ws_total"
    /\ UNCHANGED <<limiterVars, exit_code, total_start, last_status_time, now, wsVars,
                   totalFile, puzLog, puzVars, bootFile, lastWs, targets_seen, last_match_at,
                   refused, call, outsideScan>>

\* write_status: save_total_keys, then the return to the caller; from the
\* handlers main() then returns 0 (`except KeyboardInterrupt`) or 1
\* (`except Exception`)
WsTotal ==
    /\ pc = "ws_total"
    /\ totalFile' = TotalJson(SavedTotal(ws_rec))
    /\ lastWs' = "returned"
    /\ IF ws_ret \in HandlerRets
          THEN /\ pc' = "exited"
               /\ exit_code' = IF ws_ret = "exit0" THEN 0 ELSE 1
          ELSE /\ pc' = ws_ret
               /\ UNCHANGED exit_code
    /\ UNCHANGED <<limiterVars, total_start, last_status_time, now, wsVars,
                   statusFile, puzLog, puzVars, bootFile, targets_seen, last_match_at,
                   refused, stopped, call, outsideScan>>

\* write_status raises (open, dump or replace fails): inside the try block
\* the Puzzle Hunter's `except Exception` writes the status again and returns
\* 1; inside a handler nothing catches it
PuzWsFail ==
    /\ script = "puzzle"
    /\ pc \in {"ws_status", "ws_total"}
    /\ IF ws_ret \in HandlerRets
          THEN /\ pc' = "crashed"
               /\ exit_code' = 1
               /\ lastWs' = "failed"
               /\ UNCHANGED <<wsVars, stopped>>
          ELSE /\ PuzCallWriteStatus(keys_checked, last_key_hex, found_flag(matches_found), "exit1")
               /\ Stop("error", 1)
               /\ UNCHANGED exit_code
    /\ UNCHANGED <<limiterVars, total_start, last_status_time, now, diskVars, puzVars,
                   bootFile, targets_seen, last_match_at, refused, call, outsideScan>>

(***************************************************************************)
(*                 The Generator: LogBuffer and main_async                 *)
(*                                                                         *)
(* A hit line is <<asset, n>>, n its rank among the lines handed to        *)
(* LogBuffer.add.  The balance checks live in generator/utils.py; here a   *)
(* check answers None or a balance.                                        *)
(***************************************************************************)
Line(asset, n) == <<asset, n>>
FAKE_LINE == <<"FAKE", 0>>

\* LogBuffer.flush with the outcome j of its writes: -1 when open() raises,
\* j < len when j lines are written and the write of the next one raises
\* (`f.write(self.buffer.popleft())` has taken it off the buffer), j = len
\* when every line is written.  The exception is caught inside flush.
FlushOutcomes(buf) == -1..Len(buf)
flush(buf, log, j) ==
    IF buf = <<>> THEN [buffer |-> buf, log |-> log]
    ELSE IF j = -1 THEN [buffer |-> buf, log |-> log]
    ELSE IF j < Len(buf)
        THEN [buffer |-> SubSeq(buf, j + 2, Len(buf)), log |-> log \o SubSeq(buf, 1, j)]
        ELSE [buffer |-> <<>>, log |-> log \o buf]

\* LogBuffer.add
add(buf, log, line, j) ==
    LET b == Append(buf, line)
    IN  IF Len(b) >= BufferSize THEN flush(b, log, j) ELSE [buffer |-> b, log |-> log]

\* the outcomes a flush inside add(line) can have
AddOutcomes(buf) == IF Len(buf) + 1 >= BufferSize THEN -1..(Len(buf) + 1) ELSE {-1}

\* write_status: `total_global = total_start + total_checked`
GenTotalGlobal(ts, tc) == ts + tc

\* write_status: data (crypto_balance_checker.py), without the addresses
GenStatus(tc, ts, eh, bh) ==
    [kind |-> "json", script |-> "generator", keys_tested |-> tc,
     total_keys_tested |-> GenTotalGlobal(ts, tc), eth_hits |-> eh, btc_hits |-> bh]

GenLoopPcs == {"gen", "process", "g_flush"}
GenInTry == pc \in GenLoopPcs \/ (pc \in {"ws_status", "ws_total"} /\ ws_ret \notin HandlerRets)

GenCallWriteStatus(ret) ==
    /\ ws_rec' = GenStatus(total_checked', total_start, eth_hits', btc_hits')
    /\ ws_ret' = ret
    /\ lastWs' = "running"
    /\ pc' = "ws_status"

\* write_fake_test_hit_once, before the try block: an I/O error ends the
\* process with a traceback
FakeOutcomes == {"ok", "log_fails", "marker_fails"}
GenFakeHit(outcome) ==
    /\ script = "generator"
    /\ pc = "boot"
    /\ IF fakeMarker
          THEN /\ pc' = "load"
               /\ UNCHANGED <<genLog, fakeMarker, exit_code>>
          ELSE CASE outcome = "ok" ->
                        /\ genLog' = Append(genLog, FAKE_LINE)
                        /\ fakeMarker' = TRUE
                        /\ pc' = "load"
                        /\ UNCHANGED exit_code
                 [] outcome = "log_fails" ->
                        /\ pc' = "crashed"
                        /\ exit_code' = 1
                        /\ UNCHANGED <<genLog, fakeMarker>>
                 [] OTHER ->
                        /\ genLog' = Append(genLog, FAKE_LINE)
                        /\ pc' = "crashed"
                        /\ exit_code' = 1
                        /\ UNCHANGED fakeMarker
    /\ UNCHANGED <<limiterVars, total_start, last_status_time, now, wsVars, statusFile,
                   totalFile, genVars, added, bootFile, lastWs, stopped, call, printed,
                   gen_failed, outsideGen>>

\* main_async: total_start = load_total_keys(), LogBuffer(..), the counters
GenBoot ==
    /\ script = "generator"
    /\ pc = "load"
    /\ total_start' = load_total_keys(totalFile)
    /\ bootFile' = totalFile
    /\ buffer' = <<>>
    /\ total_checked' = 0
    /\ eth_hits' = 0
    /\ btc_hits' = 0
    /\ last_status_time' = 0
    /\ pc' = "gen"
    /\ UNCHANGED <<limiterVars, exit_code, now, wsVars, statusFile, totalFile, genLog,
                   fakeMarker, batch_len, bidx, batch_eth_hits, batch_btc_hits, added,
                   lastWs, puzVars, puzLog, targets_seen, last_match_at, refused,
                   stopped, call, printed, gen_failed, script, callerVars, fileVars, kgVars,
                   lifeVars, sideVars>>

\* generate_key_batch: one outcome per candidate of `for _ in range(batch_size)`:
\* "ok" appends the candidate, "raises" is caught and the loop continues
GenOutcomes == [1..GenBatchSize -> {"ok", "raises"}]
generate_key_batch_StopAtFailure(o) ==
    Cardinality({i \in DOMAIN o : \A k \in 1..i : o[k] = "ok"})
generate_key_batch(o) == Cardinality({i \in DOMAIN o : o[i] = "ok"})

(***************************************************************************)
(*                      The dashboard  (dashboard/app.py)                  *)
(*                                                                         *)
(* A status file is seen by content: absent, unreadable (open() refused),  *)
(* garbage (json.load rejects it), the JSON value null, or a status record *)
(* of which the speed field is kept.  A Python value is a record with a    *)
(* kind: "none", "dict" (with the fields of the document), "raise".        *)
(***************************************************************************)
UnreadableFile == [kind |-> "unreadable"]
NullJson == [kind |-> "json_null"]
StatusDoc(s, v) == [kind |-> "json", script |-> s, speed |-> v]
DashContents(s) ==
    {AbsentFile, UnreadableFile, GarbageFile, NullJson} \cup {StatusDoc(s, v) : v \in 0..MaxSpeed}

PyNone == [kind |-> "none"]
EmptyDict == [kind |-> "dict"]
Raised == [kind |-> "raise"]

\* read_json: `with open(path) as f: return json.load(f)`
json_load(file) ==
    IF file.kind = "json" THEN [file EXCEPT !.kind = "dict"]
    ELSE IF file.kind = "json_null" THEN PyNone
    ELSE Raised

\* read_json: `except Exception: return None`
read_json_NoExcept(file) == json_load(file)
read_json(file) == IF json_load(file) = Raised THEN PyNone ELSE json_load(file)

\* api_status: `gen or {}`
or_empty(v) == IF v = PyNone \/ v = EmptyDict THEN EmptyDict ELSE v

NoResponse == [status |-> 0, generator |-> EmptyDict, puzzle |-> EmptyDict, server_time |-> 0]

\* api_status: an exception out of the view is Flask's 500 answer
api_status(gen_file, puz_file, t) ==
    LET gen == read_json(gen_file)
        puz == read_json(puz_file)
    IN  IF gen = Raised \/ puz = Raised
            THEN [status |-> 500, generator |-> EmptyDict, puzzle |-> EmptyDict,
                  server_time |-> 0]
            ELSE [status |-> 200, generator |-> or_empty(gen), puzzle |-> or_empty(puz),
                  server_time |-> t]

DashIdle ==
    /\ dash_files = [s \in Scripts |-> AbsentFile]
    /\ response = NoResponse
    /\ requests = 0

\* a scanner replaces its status file, or the file is removed, damaged or
\* made unreadable
DashFileChange(s, c) ==
    /\ c \in DashContents(s)
    /\ dash_files[s] # c
    /\ dash_files' = [dash_files EXCEPT ![s] = c]
    /\ UNCHANGED <<script, limiterVars, callerVars, fileVars, scanVars, kgVars, lifeVars,
                   gatherVars, response, requests, chartVars, etaVars, extraVars>>

\* one GET /api/status; `time.time()` is read for server_time
ApiStatus ==
    /\ requests < MaxRequests
    /\ \E d \in 0..ClockSlack :
          /\ clock + d <= MaxClock
          /\ clock' = clock + d
    /\ response' = api_status(dash_files["generator"], dash_files["puzzle"], clock')
    /\ requests' = requests + 1
    /\ UNCHANGED <<script, total_calls, last_call, lock, callerVars, fileVars, scanVars, kgVars,
                   lifeVars, gatherVars, dash_files, chartVars, etaVars, extraVars>>

(***************************************************************************)
(* The page: updateDashboard(data) and its speed history.  The label of a  *)
(* sample is its arrival rank.                                             *)
(***************************************************************************)
\* the records a 200 answer of /api/status can hold for scanner s
DataOf(s) == {EmptyDict} \cup {[kind |-> "dict", script |-> s, speed |-> v] : v \in 0..MaxSpeed}

\* `gen.speed_keys_per_sec || 0`, `puz.keys_per_second || 0`
speed_or_zero(rec) == IF "speed" \in DOMAIN rec THEN rec.speed ELSE 0

\* Array.prototype.shift: the first element is removed
shift_Newest(arr) == SubSeq(arr, 1, Len(arr) - 1)
shift(arr) == Tail(arr)

ChartIdle ==
    /\ speedHistoryLabels = <<>>
    /\ speedHistoryGen = <<>>
    /\ speedHistoryPuz = <<>>
    /\ samples = <<>>

\* updateDashboard(data): the three push calls, then the three shift calls
\* when `speedHistoryLabels.length > MAX_POINTS`
updateDashboard(gen, puz) ==
    /\ Len(samples) < MaxPolls
    /\ LET nowLabel == Len(samples) + 1
           genSpeed == speed_or_zero(gen)
           puzSpeed == speed_or_zero(puz)
           labels == Append(speedHistoryLabels, nowLabel)
           gens == Append(speedHistoryGen, genSpeed)
           puzs == Append(speedHistoryPuz, puzSpeed)
       IN  /\ samples' = Append(samples, [label |-> nowLabel, gen |-> genSpeed, puz |-> puzSpeed])
           /\ IF Len(labels) > MAX_POINTS
                 THEN /\ speedHistoryLabels' = shift(labels)
                      /\ speedHistoryGen' = shift(gens)
                      /\ speedHistoryPuz' = shift(puzs)
                 ELSE /\ speedHistoryLabels' = labels
                      /\ speedHistoryGen' = gens
                      /\ speedHistoryPuz' = puzs
    /\ UNCHANGED <<script, limiterVars, callerVars, fileVars, scanVars, kgVars, lifeVars,
                   gatherVars, dashVars, etaVars, extraVars>>

(***************************************************************************)
(* write_status of the Puzzle Hunter: speed and ETA.  A float is held as   *)
(* the fraction num / den it stands for.                                   *)
(***************************************************************************)
Frac(n, d) == [num |-> n, den |-> d]
FracEq(x, y) == x.num * y.den = y.num * x.den

\* `speed = keys_checked / elapsed if elapsed > 0 else 0.0`
speed_of(keys_checked_, elapsed) ==
    IF elapsed > 0 THEN Frac(keys_checked_, elapsed) ELSE Frac(0, 1)

\* `if speed > 0: remaining_keys = range_size - total_keys;
\*  eta_seconds = remaining_keys / speed if remaining_keys > 0 else 0
\*  else: eta_seconds = 0`
eta_seconds_NoFloor(speed, size, total_keys) ==
    IF speed.num > 0 THEN Frac((size - total_keys) * speed.den, speed.num) ELSE Frac(0, 1)
eta_seconds(speed, size, total_keys) ==
    IF speed.num > 0
        THEN IF size - total_keys > 0
                THEN Frac((size - total_keys) * speed.den, speed.num)
                ELSE Frac(0, 1)
        ELSE Frac(0, 1)

NoEtaCall == [keys_checked |-> 0, total_keys |-> 0, elapsed |-> 0]
EtaIdle ==
    /\ eta_in = NoEtaCall
    /\ eta_out = [speed |-> Frac(0, 1), eta |-> Frac(0, 1)]

\* write_status(keys_checked, total_keys, ..) called `elapsed` after start_time
WriteStatusEta(kc, total, elapsed) ==
    /\ eta_in' = [keys_checked |-> kc, total_keys |-> total, elapsed |-> elapsed]
    /\ eta_out' = [speed |-> speed_of(kc, elapsed),
                   eta |-> eta_seconds(speed_of(kc, elapsed),
                                       PUZZLE_71_MAX - PUZZLE_71_MIN + 1, total)]
    /\ UNCHANGED <<script, limiterVars, callerVars, fileVars, scanVars, kgVars, lifeVars,
                   gatherVars, dashVars, chartVars, extraVars>>

\* the two places a status file of the dashboard can be: next to app.py's
\* parent directory, or under /opt
Locations == {"sibling", "opt"}
PathContents(s) == {AbsentFile, GarbageFile} \cup {StatusDoc(s, v) : v \in 0..MaxSpeed}

\* os.path.exists(path)
exists(file) == file.kind # "absent"

\* app.py, module level: `if not os.path.exists(GEN_STATUS): GEN_STATUS =
\* "/opt/generator/status.json"` (and the same for PUZ_STATUS)
resolve_NoFallback(sibling_file) == "sibling"
resolve(sibling_file) == IF ~exists(sibling_file) THEN "opt" ELSE "sibling"

\* the file at location l of script s, among the files that exist
FileAt(s, l) ==
    IF \E f \in loc_files : f.script = s /\ f.loc = l
        THEN (CHOOSE f \in loc_files : f.script = s /\ f.loc = l).file
        ELSE AbsentFile

\* no status file exists, app.py is not imported: its globals are not
\* assigned and no request has been answered
NoPathResponse == [status |-> 0]
PathIdle ==
    /\ loc_files = {}
    /\ dash_started = FALSE
    /\ status_path = <<>>
    /\ sibling_at_start = <<>>
    /\ path_response = NoPathResponse
    /\ path_requests = 0

\* a scanner replaces a status file at one of the locations, or the file is
\* removed or damaged
PathFileChange(s, l, c) ==
    /\ c \in PathContents(s)
    /\ FileAt(s, l) # c
    /\ loc_files' = {f \in loc_files : ~(f.script = s /\ f.loc = l)}
                        \cup (IF c = AbsentFile THEN {}
                              ELSE {[script |-> s, loc |-> l, file |-> c]})
    /\ UNCHANGED <<script, limiterVars, callerVars, fileVars, scanVars, kgVars, lifeVars,
                   gatherVars, dashVars, chartVars, etaVars, b58Vars, dash_started,
                   status_path, sibling_at_start, path_response, path_requests>>

\* app.py is imported: GEN_STATUS and PUZ_STATUS are assigned
DashImport ==
    /\ ~dash_started
    /\ dash_started' = TRUE
    /\ status_path' = [s \in Scripts |-> resolve(FileAt(s, "sibling"))]
    /\ sibling_at_start' = [s \in Scripts |-> FileAt(s, "sibling") # AbsentFile]
    /\ UNCHANGED <<script, limiterVars, callerVars, fileVars, scanVars, kgVars, lifeVars,
                   gatherVars, dashVars, chartVars, etaVars, b58Vars, loc_files,
                   path_response, path_requests>>

\* one GET /api/status: read_json(GEN_STATUS), read_json(PUZ_STATUS)
PathApiStatus ==
    /\ dash_started
    /\ path_requests < MaxRequests
    /\ path_response' = api_status(FileAt("generator", status_path["generator"]),
                                   FileAt("puzzle", status_path["puzzle"]), clock)
    /\ path_requests' = path_requests + 1
    /\ UNCHANGED <<script, limiterVars, callerVars, fileVars, scanVars, kgVars, lifeVars,
                   gatherVars, dashVars, chartVars, etaVars, b58Vars, loc_files,
                   dash_started, status_path, sibling_at_start>>

\* base58_encode: alphabet = '123456789ABCDEFGHJKLMNPQRSTUVWXYZabcdefghijkmnopqrstuvwxyz'
alphabet ==
    <<"1", "2", "3", "4", "5", "6", "7", "8", "9",
      "A", "B", "C", "D", "E", "F", "G", "H", "J", "K", "L", "M", "N", "P", "Q", "R", "S", "T",
      "U", "V", "W", "X", "Y", "Z",
      "a", "b", "c", "d", "e", "f", "g", "h", "i", "j", "k", "m", "n", "o", "p", "q", "r", "s",
      "t", "u", "v", "w", "x", "y", "z">>

\* int.from_bytes(data, 'big')
RECURSIVE from_bytes(_)
from_bytes(data) ==
    IF data = <<>> THEN 0
    ELSE from_bytes(SubSeq(data, 1, Len(data) - 1)) * 256 + data[Len(data)]

\* base58_encode: `while num > 0: num, remainder = divmod(num, 58);
\* result = alphabet[remainder] + result`
RECURSIVE encode_digits(_, _)
encode_digits(num, result) ==
    IF num > 0 THEN encode_digits(num \div 58, <<alphabet[(num % 58) + 1]>> \o result)
    ELSE result

\* base58_encode: `for byte in data: if byte == 0: result = '1' + result
\* else: break`
RECURSIVE leading_zeros(_, _)
leading_zeros(data, result) ==
    IF data # <<>> /\ data[1] = 0
        THEN leading_zeros(SubSeq(data, 2, Len(data)), <<"1">> \o result)
        ELSE result

base58_encode_DigitsOnly(data) == encode_digits(from_bytes(data), <<>>)
base58_encode(data) == leading_zeros(data, encode_digits(from_bytes(data), <<>>))

B58Idle ==
    /\ b58_in = <<>>
    /\ b58_out = <<>>

\* one call base58_encode(data)
Base58Encode(data) ==
    /\ b58_in' = data
    /\ b58_out' = base58_encode(data)
    /\ UNCHANGED <<script, limiterVars, callerVars, fileVars, scanVars, kgVars, lifeVars,
                   gatherVars, dashVars, chartVars, etaVars, pathVars>>

\* no balance check of the Generator has been started
SideIdle ==
    /\ inflight = {}
    /\ results = {}
    /\ DashIdle
    /\ ChartIdle
    /\ EtaIdle
    /\ B58Idle
    /\ PathIdle

\* main_async: batch = generate_key_batch(BATCH_SIZE), which drops the keys
\* whose generation raises; an empty batch sleeps and starts over.
\* process_batch starts with eth_hits = 0, btc_hits = 0.
GenBatch ==
    /\ script = "generator"
    /\ pc = "gen"
    /\ total_checked + GenBatchSize <= MaxSessionKeys
    /\ \E o \in GenOutcomes :
          /\ batch_len' = generate_key_batch(o)
          /\ gen_failed' = Cardinality({i \in DOMAIN o : o[i] = "raises"})
          /\ pc' = IF generate_key_batch(o) = 0 THEN "gen" ELSE "process"
    /\ bidx' = 1
    /\ batch_eth_hits' = 0
    /\ batch_btc_hits' = 0
    /\ UNCHANGED <<limiterVars, exit_code, total_start, last_status_time, now, wsVars,
                   statusFile, totalFile, genLog, fakeMarker, total_checked, eth_hits,
                   btc_hits, buffer, added, bootFile, lastWs, stopped, call, printed, outsideGen>>

\* what a balance check of the Generator hands back: None, or a balance
\* (0 .. MaxSatoshi units)
GenBalances == {NoValue} \cup {[kind |-> "float", num |-> n, den |-> 1] : n \in 0..MaxSatoshi}

\* process_batch: `if eth_balance and eth_balance > 0:` (and the same for BTC)
is_hit_NotNone(b) == b.kind = "float"
is_hit(b) == b.kind = "float" /\ b.num > 0

\* process_batch: one key: both balances, then the ETH line, then the BTC
\* line, each through log_buffer.add
GenProcessKey(eth_balance, btc_balance) ==
    LET eth == is_hit(eth_balance)
        btc == is_hit(btc_balance)
    IN
    /\ script = "generator"
    /\ pc = "process"
    /\ bidx <= batch_len
    /\ Len(added) + (IF eth THEN 1 ELSE 0) + (IF btc THEN 1 ELSE 0) <= MaxLines
    /\ LET l1 == Line("ETH", Len(added) + 1)
           a1 == IF eth THEN Append(added, l1) ELSE added
           l2 == Line("BTC", Len(a1) + 1)
       IN  \E j1 \in (IF eth THEN AddOutcomes(buffer) ELSE {-1}) :
             LET r1 == IF eth THEN add(buffer, genLog, l1, j1)
                              ELSE [buffer |-> buffer, log |-> genLog]
             IN  \E j2 \in (IF btc THEN AddOutcomes(r1.buffer) ELSE {-1}) :
                   LET r2 == IF btc THEN add(r1.buffer, r1.log, l2, j2) ELSE r1
                   IN  /\ buffer' = r2.buffer
                       /\ genLog' = r2.log
                       /\ added' = IF btc THEN Append(a1, l2) ELSE a1
    /\ batch_eth_hits' = batch_eth_hits + (IF eth THEN 1 ELSE 0)
    /\ batch_btc_hits' = batch_btc_hits + (IF btc THEN 1 ELSE 0)
    /\ bidx' = bidx + 1
    /\ UNCHANGED <<limiterVars, pc, exit_code, total_start, last_status_time, now, wsVars,
                   statusFile, totalFile, fakeMarker, total_checked, eth_hits, btc_hits,
                   batch_len, lastWs, bootFile, stopped, call, printed, gen_failed, outsideGen>>

\* main_async: need_status: `total_checked % 1000 < BATCH_SIZE` or
\* `(now - last_status_time) >= STATUS_INTERVAL`
print_due_ExactMultiple(tc) == tc % PrintInterval = 0
print_due(tc) == tc % PrintInterval < GenBatchSize

need_status(tc, t, last) ==
    \/ print_due(tc)
    \/ t - last >= StatusInterval

\* main_async: after process_batch: the counters, `now = time.time()`,
\* need_status, write_status.  The clock is read here: the time that has
\* passed since the last read is added.
GenAccount ==
    /\ script = "generator"
    /\ pc = "process"
    /\ bidx > batch_len
    /\ total_checked' = total_checked + batch_len
    /\ eth_hits' = eth_hits + batch_eth_hits
    /\ btc_hits' = btc_hits + batch_btc_hits
    /\ \E d \in 0..StatusInterval :
          /\ clock + d <= MaxClock
          /\ clock' = clock + d
    /\ now' = clock'
    /\ printed' = print_due(total_checked')
    /\ IF need_status(total_checked', now', last_status_time)
          THEN GenCallWriteStatus("g_flush")
          ELSE /\ pc' = "gen"
               /\ UNCHANGED <<wsVars, lastWs>>
    /\ UNCHANGED <<total_calls, last_call, lock, exit_code, total_start, last_status_time,
                   statusFile, totalFile, genLog, fakeMarker, batch_len, bidx,
                   batch_eth_hits, batch_btc_hits, buffer, added, bootFile, stopped, call,
                   gen_failed, outsideGen>>

\* main_async: after write_status: log_buffer.flush(), last_status_time = now
GenStatusFlush(j) ==
    /\ script = "generator"
    /\ pc = "g_flush"
    /\ j \in FlushOutcomes(buffer)
    /\ buffer' = flush(buffer, genLog, j).buffer
    /\ genLog' = flush(buffer, genLog, j).log
    /\ last_status_time' = now
    /\ pc' = "gen"
    /\ UNCHANGED <<limiterVars, exit_code, total_start, now, wsVars, statusFile, totalFile,
                   fakeMarker, total_checked, eth_hits, btc_hits, batch_len, bidx,
                   batch_eth_hits, batch_btc_hits, added, lastWs, bootFile, stopped, call,
                   printed, gen_failed, outsideGen>>

\* main_async: KeyboardInterrupt raised inside the coroutine:
\* log_buffer.flush(), write_status(..), return 0
GenInterruptHandled(j) ==
    /\ script = "generator"
    /\ GenInTry
    /\ j \in FlushOutcomes(buffer)
    /\ buffer' = flush(buffer, genLog, j).buffer
    /\ genLog' = flush(buffer, genLog, j).log
    /\ UNCHANGED <<total_checked, eth_hits, btc_hits>>
    /\ GenCallWriteStatus("exit0")
    /\ Stop("interrupt", 1)
    /\ UNCHANGED <<limiterVars, exit_code, total_start, last_status_time, now, statusFile,
                   totalFile, fakeMarker, batch_len, bidx, batch_eth_hits, batch_btc_hits,
                   added, bootFile, call, printed, gen_failed, outsideGen>>

\* Ctrl+C while the coroutine is suspended (asyncio.sleep, asyncio.gather):
\* asyncio.run cancels the task; CancelledError is neither KeyboardInterrupt
\* nor Exception, so no handler of main_async runs; main() returns 0
GenInterruptCancelled ==
    /\ script = "generator"
    /\ pc \in {"gen", "process"}
    /\ pc' = "exited"
    /\ exit_code' = 0
    /\ Stop("interrupt", 0)
    /\ UNCHANGED <<limiterVars, total_start, last_status_time, now, wsVars, statusFile,
                   totalFile, genLog, fakeMarker, genVars, added, lastWs, bootFile, call,
                   printed, gen_failed, outsideGen>>

\* main_async: `except Exception`: process_batch or write_status raised:
\* log_buffer.flush(), return 1.  An exception of the write_status of the
\* interrupt handler is caught by nothing.
GenFatal(j) ==
    /\ script = "generator"
    /\ pc \in {"process", "ws_status", "ws_total"}
    /\ j \in FlushOutcomes(buffer)
    /\ IF pc \in {"ws_status", "ws_total"} /\ ws_ret \in HandlerRets
          THEN /\ pc' = "crashed"
               /\ UNCHANGED <<buffer, genLog, stopped>>
          ELSE /\ pc' = "exited"
               /\ Stop("error", 0)
               /\ buffer' = flush(buffer, genLog, j).buffer
               /\ genLog' = flush(buffer, genLog, j).log
    /\ exit_code' = 1
    /\ lastWs' = IF pc = "process" THEN lastWs ELSE "failed"
    /\ UNCHANGED <<limiterVars, total_start, last_status_time, now, wsVars, statusFile,
                   totalFile, fakeMarker, total_checked, eth_hits, btc_hits, batch_len, bidx,
                   batch_eth_hits, batch_btc_hits, added, bootFile, call, printed, gen_failed,
                   outsideGen>>

ScanInit ==
    /\ pc = "boot"
    /\ exit_code = -1
    /\ total_start = 0
    /\ last_status_time = 0
    /\ now = 0
    /\ ws_rec = AbsentFile
    /\ ws_ret = "none"
    /\ statusFile = AbsentFile
    /\ totalFile \in {AbsentFile, GarbageFile, TotalJson(PriorTotal)}
    /\ puzLog = <<>>
    /\ total_checked = 0
    /\ eth_hits = 0
    /\ btc_hits = 0
    /\ batch_len = 0
    /\ bidx = 1
    /\ batch_eth_hits = 0
    /\ batch_btc_hits = 0
    /\ buffer = <<>>
    /\ genLog = <<>>
    /\ fakeMarker = FALSE
    /\ added = <<>>
    /\ printed = FALSE
    /\ gen_failed = 0
    /\ keys_checked = 0
    /\ matches_found = 0
    /\ last_key_hex = 0
    /\ private_keys = <<>>
    /\ kidx = 1
    /\ retry = 0
    /\ balance = Unset
    /\ call = NoCall
    /\ bootFile = AbsentFile
    /\ lastWs = "none"
    /\ targets_seen = 0
    /\ last_match_at = 0
    /\ refused = FALSE
    /\ stopped = NotStopped

\* the variables SpecLimiter and SpecFiles do not use
ScanIdle ==
    /\ pc = "boot"
    /\ exit_code = -1
    /\ total_start = 0
    /\ last_status_time = 0
    /\ now = 0
    /\ ws_rec = AbsentFile
    /\ ws_ret = "none"
    /\ statusFile = AbsentFile
    /\ totalFile = AbsentFile
    /\ puzLog = <<>>
    /\ total_checked = 0
    /\ eth_hits = 0
    /\ btc_hits = 0
    /\ batch_len = 0
    /\ bidx = 1
    /\ batch_eth_hits = 0
    /\ batch_btc_hits = 0
    /\ buffer = <<>>
    /\ genLog = <<>>
    /\ fakeMarker = FALSE
    /\ added = <<>>
    /\ printed = FALSE
    /\ gen_failed = 0
    /\ keys_checked = 0
    /\ matches_found = 0
    /\ last_key_hex = 0
    /\ private_keys = <<>>
    /\ kidx = 1
    /\ retry = 0
    /\ balance = Unset
    /\ call = NoCall
    /\ bootFile = AbsentFile
    /\ lastWs = "none"
    /\ targets_seen = 0
    /\ last_match_at = 0
    /\ refused = FALSE
    /\ stopped = NotStopped

(***************************************************************************)
(*        generate_puzzle71_private_key and generate_puzzle71_batch        *)
(***************************************************************************)
RECURSIVE bit_length(_)
\* int.bit_length()
bit_length(n) == IF n = 0 THEN 0 ELSE 1 + bit_length(n \div 2)

\* `range_size = PUZZLE_71_MAX - PUZZLE_71_MIN + 1`
range_size == PUZZLE_71_MAX - PUZZLE_71_MIN + 1
\* `range_bits = range_size.bit_length()`
range_bits == bit_length(range_size)
\* the values secrets.randbits(k) can return
randbits(k) == 0..(2^k - 1)

\* `if random_value < range_size`
Accept_Inclusive(random_value) == random_value <= range_size
Accept(random_value) == random_value < range_size
\* `return PUZZLE_71_MIN + random_value`
KeyOf_NoOffset(random_value) == random_value
KeyOf(random_value) == PUZZLE_71_MIN + random_value

KgIdle ==
    /\ kg_pc = "idle"
    /\ kg_n = 0
    /\ kg_batch = <<>>
    /\ kg_raws = <<>>
    /\ kg_rejected = {}

\* generate_puzzle71_batch(batch_size) is called
KgCall(n) ==
    /\ kg_pc = "idle"
    /\ kg_n' = n
    /\ kg_pc' = "draw"
    /\ UNCHANGED <<kg_batch, kg_raws, kg_rejected, outsideKeyGen>>

\* generate_puzzle71_private_key: one turn of its `while True`: a raw value
\* is drawn; below range_size it makes the next key of the batch, otherwise
\* the loop draws again
KgDraw(random_value) ==
    /\ kg_pc = "draw"
    /\ Len(kg_batch) < kg_n
    /\ random_value \in randbits(range_bits)
    /\ IF Accept(random_value)
          THEN /\ kg_batch' = Append(kg_batch, KeyOf(random_value))
               /\ kg_raws' = Append(kg_raws, random_value)
               /\ UNCHANGED kg_rejected
          ELSE /\ kg_rejected' = kg_rejected \cup {random_value}
               /\ UNCHANGED <<kg_batch, kg_raws>>
    /\ UNCHANGED <<kg_pc, kg_n, outsideKeyGen>>

\* generate_puzzle71_batch: the list comprehension is complete
KgReturn ==
    /\ kg_pc = "draw"
    /\ Len(kg_batch) = kg_n
    /\ kg_pc' = "done"
    /\ UNCHANGED <<kg_n, kg_batch, kg_raws, kg_rejected, outsideKeyGen>>

\* the script is started again over the files the last process left: a new
\* process, new memory
Restart ==
    /\ pc \in {"exited", "crashed"}
    /\ starts < MaxStarts
    /\ starts' = starts + 1
    /\ pc' = "boot"
    /\ exit_code' = -1
    /\ total_start' = 0
    /\ last_status_time' = 0
    /\ now' = 0
    /\ ws_rec' = AbsentFile
    /\ ws_ret' = "none"
    /\ total_checked' = 0
    /\ eth_hits' = 0
    /\ btc_hits' = 0
    /\ batch_len' = 0
    /\ bidx' = 1
    /\ batch_eth_hits' = 0
    /\ batch_btc_hits' = 0
    /\ buffer' = <<>>
    /\ bootFile' = AbsentFile
    /\ lastWs' = "none"
    /\ stopped' = NotStopped
    /\ UNCHANGED <<script, limiterVars, callerVars, fileVars, diskVars, puzVars, genLog,
                   fakeMarker, added, targets_seen, last_match_at, refused, call, kgVars,
                   sideVars>>
    /\ printed' = FALSE
    /\ gen_failed' = 0

\* main_async, one iteration reduced to its counting: a batch of n keys,
\* `total_checked += len(batch)`, then the print condition
ProgressBatch(n) ==
    /\ script = "generator"
    /\ n \in 1..GenBatchSize
    /\ total_checked + n <= MaxProgressKeys
    /\ batch_len' = n
    /\ total_checked' = total_checked + n
    /\ printed' = print_due(total_checked')
    /\ UNCHANGED <<script, limiterVars, callerVars, fileVars, procVars, wsVars, diskVars,
                   puzVars, eth_hits, btc_hits, bidx, batch_eth_hits, batch_btc_hits, buffer,
                   genLog, fakeMarker, added, gen_failed, histVars, call, kgVars, lifeVars, sideVars>>

(***************************************************************************)
(* process_batch check by check: what GenProcessKey does in one step, with *)
(* the two coroutines of asyncio.gather interleaved.  A candidate is named *)
(* by its rank in the session, total_checked + bidx.                       *)
(***************************************************************************)
Assets == {"ETH", "BTC"}
Candidate == total_checked + bidx

\* `await asyncio.gather(eth_task, btc_task)` returns when both have completed
gather_done_FirstCompleted(k, res) == \E a \in Assets : \E r \in res : r[1] = a /\ r[2] = k
gather_done(k, res) == \A a \in Assets : \E r \in res : r[1] = a /\ r[2] = k

\* the balance gather hands back for the check of asset a of candidate k
ResultOf(a, k) ==
    IF \E r \in results : r[1] = a /\ r[2] = k
        THEN (CHOOSE r \in results : r[1] = a /\ r[2] = k)[3]
        ELSE NoValue

\* process_batch: the two coroutines of one candidate are made and handed to
\* asyncio.gather, which schedules both; the balances of the candidate
\* before are gone with the loop variables that held them
GatherStart ==
    /\ script = "generator"
    /\ pc = "process"
    /\ bidx <= batch_len
    /\ \A a \in Assets : <<a, Candidate>> \notin inflight
    /\ ~ \E r \in results : r[2] = Candidate
    /\ inflight' = inflight \cup {<<a, Candidate>> : a \in Assets}
    /\ results' = {r \in results : <<r[1], r[2]>> \in inflight}
    /\ UNCHANGED <<script, limiterVars, callerVars, fileVars, scanVars, kgVars, lifeVars,
                   dashVars, chartVars, etaVars, extraVars>>

\* one balance check completes with a balance
CheckDone(a, k, b) ==
    /\ script = "generator"
    /\ <<a, k>> \in inflight
    /\ inflight' = inflight \ {<<a, k>>}
    /\ results' = results \cup {<<a, k, b>>}
    /\ UNCHANGED <<script, limiterVars, callerVars, fileVars, scanVars, kgVars, lifeVars,
                   dashVars, chartVars, etaVars, extraVars>>

\* gather returns both balances; the rest of the loop body is GenProcessKey
GatherReturn ==
    /\ gather_done(Candidate, results)
    /\ GenProcessKey(ResultOf("ETH", Candidate), ResultOf("BTC", Candidate))

(***************************************************************************)
(*                          The specifications                             *)
(***************************************************************************)
CallersInit ==
    /\ cpc = [c \in Callers |-> "idle"]
    /\ cwake = [c \in Callers |-> 0]
    /\ ctmp = [c \in Callers |-> 0]
    /\ cseen = [c \in Callers |-> 0]
    /\ cresult = [c \in Callers |-> "none"]
    /\ granted = 0
    /\ grants = <<>>

InitLimiter ==
    /\ script = "puzzle"
    /\ clock = ClockStart
    /\ LimiterInit
    /\ CallersInit
    /\ FilesInit
    /\ ScanIdle
    /\ KgIdle
    /\ starts = 1
    /\ SideIdle

NextLimiter ==
    \/ Tick
    \/ \E c \in Callers : Acquire(c)
    \/ \E c \in Callers : Refuse(c)
    \/ \E c \in Callers : Check(c)
    \/ \E c \in Callers : Stamp(c)
    \/ \E c \in Callers : CountRead(c)
    \/ \E c \in Callers : CountWrite(c)
    \/ \E c \in Callers : Release(c)

SpecLimiter == InitLimiter /\ [][NextLimiter]_vars

\* the callers inside the check-sleep-update section of wait()
InSection == {c \in Callers : cpc[c] # "idle"}

(***************************************************************************)
(* C5: total_calls never exceeds max_calls, and a wait() that finds        *)
(* total_calls at the ceiling is refused, never granted: a caller past the *)
(* check found total_calls below the ceiling, a refused call found it at   *)
(* the ceiling, a granted call found it below.                             *)
(***************************************************************************)
C5_CeilingEnforced ==
    /\ total_calls <= MaxCalls
    /\ \A c \in Callers :
        /\ cpc[c] \in {"sleep", "count", "store", "release"} => cseen[c] < MaxCalls
        /\ cresult[c] = "refused" /\ cpc[c] = "idle" => cseen[c] >= MaxCalls
        /\ cresult[c] = "granted" /\ cpc[c] = "idle" => cseen[c] < MaxCalls

\* the call after the MaxCalls-th has been refused
C5_Witness ==
    /\ total_calls = MaxCalls
    /\ granted = MaxCalls
    /\ \E c \in Callers : cpc[c] = "idle" /\ cresult[c] = "refused"

(***************************************************************************)
(* C7: two consecutive granted calls are stamped at least min_interval     *)
(* apart, so N granted calls span at least (N-1) * min_interval.           *)
(***************************************************************************)
C7_GrantSpacing ==
    /\ \A i \in 1..(Len(grants) - 1) : grants[i + 1] - grants[i] >= MinInterval
    /\ Len(grants) >= 1 => grants[Len(grants)] - grants[1] >= (Len(grants) - 1) * MinInterval

\* a call that had to sleep was granted right after another
C7_Witness ==
    /\ Len(grants) >= 2
    /\ grants[2] - grants[1] = MinInterval
    /\ granted >= 2

(***************************************************************************)
(* C8: at most one caller is inside the check-sleep-update section, and    *)
(* total_calls counts exactly the granted calls (those returned, plus the  *)
(* one that has counted itself and is about to return).                    *)
(***************************************************************************)
C8_MutualExclusion ==
    /\ Cardinality(InSection) <= 1
    /\ total_calls = granted + Cardinality({c \in Callers : cpc[c] = "release"})
    /\ Len(grants) = granted + Cardinality({c \in Callers : cpc[c] \in {"count", "store", "release"}})

\* one caller sleeps inside the section while another waits for the lock,
\* after both have been granted a call
C8_Witness ==
    /\ \E c \in Callers : cpc[c] = "sleep" /\ cwake[c] > clock
    /\ \A c \in Callers : cresult[c] = "granted"
    /\ granted >= 2

InitFiles ==
    /\ script \in Scripts
    /\ clock = ClockStart
    /\ LimiterInit
    /\ CallersInit
    /\ FilesInit
    /\ ScanIdle
    /\ KgIdle
    /\ starts = 1
    /\ SideIdle

NextFiles ==
    \/ \E s \in Scripts : WBegin(s)
    \/ \E s \in Scripts : WOpen(s)
    \/ \E s \in Scripts : WDump(s)
    \/ \E s \in Scripts : WReplace(s)
    \/ \E s \in Scripts : WAbort(s)
    \/ \E f \in Files : ROpen(f)
    \/ RLoad

SpecFiles == InitFiles /\ [][NextFiles]_vars

(***************************************************************************)
(* C1: what is linked at a target path is absent or the whole document of  *)
(* a finished write, and so is what read_json finds, whenever it opens and *)
(* loads; content still being written is linked at the tmp name only.      *)
(***************************************************************************)
C1_TargetsWhole ==
    /\ \A f \in Files :
        LET i == dir[TargetPath(f)]
        IN  i # NoFile => IsDocument(ino[f][i]) /\ ino[f][i][1] \in finished[f]
    /\ rpc = "open" => IsDocument(ino[rfile][rfd]) /\ ino[rfile][rfd][1] \in finished[rfile]
    /\ robs[1] # "unparsable"
    /\ robs[1] = "document" => robs[2] \in finished[rfile]

\* the reader holds the previous document open while the target already
\* names the next one and a later write has left a partial tmp file
C1_Witness ==
    /\ rpc = "open"
    /\ rfd # dir[TargetPath(rfile)]
    /\ IsDocument(ino[rfile][rfd])
    /\ \E f \in Files :
        /\ dir[<<f, "tmp">>] # NoFile
        /\ ~IsDocument(ino[f][dir[<<f, "tmp">>]])
        /\ Len(ino[f][dir[<<f, "tmp">>]]) > 0
        /\ dir[TargetPath(f)] # NoFile

Init ==
    /\ script \in Scripts
    /\ clock = ClockStart
    /\ LimiterInit
    /\ CallersInit
    /\ FilesInit
    /\ ScanInit
    /\ KgIdle
    /\ starts = 1
    /\ SideIdle

Next ==
    \/ PuzBoot
    \/ PuzGenBatch
    \/ PuzKey
    \/ PuzDeriveError
    \/ PuzMatchLog
    \/ PuzMatchLogError
    \/ PuzVerifyRefused
    \/ \E o \in HttpOutcomes, sat \in Satoshis : PuzVerifyAttempt(o, sat)
    \/ PuzBatchEnd
    \/ PuzStamp
    \/ PuzInterrupt
    \/ WsStatus
    \/ WsTotal
    \/ PuzWsFail
    \/ \E o \in FakeOutcomes : GenFakeHit(o)
    \/ GenBoot
    \/ GenBatch
    \/ \E eth_balance, btc_balance \in GenBalances : GenProcessKey(eth_balance, btc_balance)
    \/ GenAccount
    \/ \E j \in -1..MaxLines : GenStatusFlush(j)
    \/ \E j \in -1..MaxLines : GenInterruptHandled(j)
    \/ GenInterruptCancelled
    \/ \E j \in -1..MaxLines : GenFatal(j)

Spec == Init /\ [][Next]_vars

\* the session counter a status record carries
Session(r) == IF r.script = "generator" THEN r.keys_tested ELSE r.keys_checked

(***************************************************************************)
(* C2: the status record the process has written carries                   *)
(* total_keys_tested = total_start + its session counter, for the          *)
(* total_start the process holds now (so total_start has not changed       *)
(* since any of its writes).                                               *)
(***************************************************************************)
C2_TotalIsStartPlusSession ==
    statusFile.kind = "json" =>
        statusFile.total_keys_tested = total_start + Session(statusFile)

C2_Witness ==
    /\ total_start = PriorTotal
    /\ statusFile.kind = "json"
    /\ Session(statusFile) = MaxSessionKeys

(***************************************************************************)
(* C3: a process started on a total-keys file holding T writes             *)
(* total_keys_tested = T + N after N session keys; a missing or            *)
(* unparsable file counts as T = 0.                                        *)
(***************************************************************************)
C3_ResumesFromPersistedTotal ==
    LET T == IF bootFile.kind = "json" THEN bootFile.total ELSE 0
    IN  statusFile.kind = "json" => statusFile.total_keys_tested = T + Session(statusFile)

C3_Witness ==
    /\ bootFile = TotalJson(PriorTotal)
    /\ statusFile.kind = "json"
    /\ Session(statusFile) > 0
    /\ statusFile.total_keys_tested = PriorTotal + Session(statusFile)

(***************************************************************************)
(* C4: once write_status has returned, the total-keys file holds the       *)
(* total_keys_tested of the status file it wrote.                          *)
(***************************************************************************)
C4_TotalFileFollowsStatus ==
    lastWs = "returned" =>
        /\ statusFile = ws_rec
        /\ totalFile = TotalJson(statusFile.total_keys_tested)

C4_Witness ==
    /\ lastWs = "returned"
    /\ Session(statusFile) > 0
    /\ total_start > 0
    /\ totalFile = TotalJson(total_start + Session(statusFile))

(***************************************************************************)
(* C6: once the rate limiter has refused a call of the Puzzle Hunter, the  *)
(* scanner stops: it does not go back to testing keys.                     *)
(***************************************************************************)
C6_RefusalStopsScanner ==
    script = "puzzle" /\ refused => pc \notin {"key", "gen"}

(***************************************************************************)
(* C9: no line handed to the Generator's LogBuffer is lost, duplicated or  *)
(* reordered: the hit lines of found_funds.log followed by the lines still *)
(* buffered are the lines added, in the order added.                       *)
(***************************************************************************)
C9_NoLineLost ==
    script = "generator" =>
        SelectSeq(genLog, LAMBDA l : l # FAKE_LINE) \o buffer = added

(***************************************************************************)
(* C10: when the Puzzle Hunter turns to the next key, every key so far     *)
(* whose address was TARGET_ADDRESS has been counted in matches_found and  *)
(* the status file this process wrote shows found = true at or after the   *)
(* last such key, whatever check_btc_balance returned.                     *)
(***************************************************************************)
C10_MatchPersistedBeforeNextKey ==
    script = "puzzle" /\ pc \in {"key", "gen", "stamp"} =>
        /\ matches_found = targets_seen
        /\ targets_seen > 0 =>
            /\ statusFile.kind = "json"
            /\ statusFile.found
            /\ statusFile.keys_checked >= last_match_at

\* the verification returned no value and the loop is at the next key
C10_Witness ==
    /\ script = "puzzle"
    /\ pc = "key"
    /\ balance = NoValue
    /\ targets_seen = 1
    /\ matches_found = 1
    /\ statusFile.kind = "json"
    /\ statusFile.found
    /\ statusFile.keys_checked = last_match_at
    /\ keys_checked = last_match_at

(***************************************************************************)
(* C11: the Puzzle Hunter does not stop on a match: its loop is left only  *)
(* by an interruption or an error, never because a match was handled.      *)
(***************************************************************************)
C11_LoopLeftOnlyByStop ==
    script = "puzzle" /\ pc \in {"exit0", "exit1", "exited", "crashed"} =>
        stopped.cause # "none"

\* a match at the first key, and every later key of the session tested
C11_Witness ==
    /\ script = "puzzle"
    /\ last_match_at = 1
    /\ matches_found = 1
    /\ keys_checked = MaxSessionKeys
    /\ stopped.cause = "none"

(***************************************************************************)
(* C12: a Generator that was interrupted and has exited has written one    *)
(* final status record carrying the counters it had at the interruption,   *)
(* and has exited with code 0.                                             *)
(***************************************************************************)
C12_InterruptWritesFinalStatus ==
    script = "generator" /\ stopped.cause = "interrupt" /\ pc = "exited" =>
        /\ exit_code = 0
        /\ stopped.writes = 1
        /\ statusFile = GenStatus(total_checked, total_start, eth_hits, btc_hits)

(***************************************************************************)
(* C13: a Generator that left its loop on an error and has exited has      *)
(* attempted one final status write after the error, and has exited with   *)
(* code 1.                                                                 *)
(***************************************************************************)
C13_FatalAttemptsFinalStatus ==
    script = "generator" /\ stopped.cause = "error" /\ pc = "exited" =>
        /\ exit_code = 1
        /\ stopped.attempts = 1

(***************************************************************************)
(* C14: a Puzzle Hunter that has exited after an interruption or an error  *)
(* has persisted exactly one final status record, carrying keys_checked,   *)
(* total_start + keys_checked, the last key and found = (a key of this     *)
(* session had the target address), and has exited with 0 after an         *)
(* interruption and 1 after an error.                                      *)
(***************************************************************************)
C14_FinalStatusOnStop ==
    script = "puzzle" /\ pc = "exited" =>
        /\ stopped.writes = 1
        /\ statusFile = PuzStatus(keys_checked, total_start + keys_checked, last_key_hex,
                                  targets_seen > 0)
        /\ exit_code = IF stopped.cause = "interrupt" THEN 0 ELSE 1

(***************************************************************************)
(* C15: one call of check_btc_balance makes at most MAX_RETRIES            *)
(* rate-limiter waits, at most as many requests and at most                *)
(* MAX_RETRIES - 1 backoff sleeps; it has ended once its MAX_RETRIES-th    *)
(* attempt is over, and when it gave up it did so after exactly            *)
(* MAX_RETRIES attempts and returned no value.                             *)
(***************************************************************************)
C15_BoundedAttempts ==
    script = "puzzle" =>
        /\ call.waits <= MAX_RETRIES
        /\ call.requests <= call.waits
        /\ call.sleeps <= MAX_RETRIES - 1
        /\ call.ended = "running" /\ pc = "verify" => call.waits < MAX_RETRIES
        /\ call.ended = "gave_up" => call.waits = MAX_RETRIES /\ balance = NoValue

\* a call whose every attempt made its request and failed
C15_Witness ==
    /\ script = "puzzle"
    /\ call.ended = "gave_up"
    /\ call.requests = MAX_RETRIES
    /\ call.sleeps = MAX_RETRIES - 1
    /\ balance = NoValue

(***************************************************************************)
(* C16: no step taken inside check_btc_balance enters the error handler    *)
(* of the Puzzle Hunter: whatever an attempt raises, the call ends by      *)
(* returning a balance or no value, and main() goes on with the status     *)
(* write of the match and the next key.                                    *)
(***************************************************************************)
C16_NoErrorLeavesVerification ==
    [][script = "puzzle" /\ pc = "verify" =>
          /\ stopped'.cause # "error"
          /\ call'.ended # "running" =>
                /\ balance'.kind \in {"none", "float"}
                /\ pc' = "ws_status"
                /\ ws_ret' = "key"]_vars

\* a call that failed in every attempt, after which the loop is at the
\* next key
C16_Witness ==
    /\ script = "puzzle"
    /\ call.ended = "gave_up"
    /\ call.requests >= 1
    /\ balance = NoValue
    /\ lastWs = "returned"
    /\ pc = "key"
    /\ stopped.cause = "none"

(***************************************************************************)
(* C17: a call of check_btc_balance that ended with a successful lookup    *)
(* returned final_balance / 100000000 of the address when the document     *)
(* held it, and 0.0 when it did not; it called log_funds_found once when   *)
(* that balance is greater than 0 and not at all otherwise.                *)
(***************************************************************************)
C17_LookupResult ==
    script = "puzzle" /\ call.ended = "lookup" =>
        LET final_balance == IF call.present THEN call.sat ELSE 0
        IN  /\ balance = [kind |-> "float", num |-> final_balance, den |-> 100000000]
            /\ call.logs = IF call.present /\ call.sat > 0 THEN 1 ELSE 0

\* a lookup that found a positive balance and logged it
C17_Witness ==
    /\ script = "puzzle"
    /\ call.ended = "lookup"
    /\ call.present
    /\ call.sat > 0
    /\ call.logs = 1
    /\ balance.num = call.sat
    /\ puzLog # <<>> /\ puzLog[Len(puzLog)] = "verified"

(***************************************************************************)
(* SpecKeyGen: one call of generate_puzzle71_batch, drawing by drawing.    *)
(***************************************************************************)
InitKeyGen ==
    /\ script = "puzzle"
    /\ clock = ClockStart
    /\ LimiterInit
    /\ CallersInit
    /\ FilesInit
    /\ ScanIdle
    /\ KgIdle
    /\ starts = 1
    /\ SideIdle

NextKeyGen ==
    \/ \E n \in 0..MaxBatch : KgCall(n)
    \/ \E r \in randbits(range_bits) : KgDraw(r)
    \/ KgReturn

SpecKeyGen == InitKeyGen /\ [][NextKeyGen]_vars

(***************************************************************************)
(* C18: every key generate_puzzle71_batch(n) puts in its batch lies in     *)
(* PUZZLE_71_MIN..PUZZLE_71_MAX, and the batch it returns has exactly n    *)
(* elements.                                                               *)
(***************************************************************************)
C18_KeysInRange ==
    /\ \A i \in DOMAIN kg_batch : PUZZLE_71_MIN <= kg_batch[i] /\ kg_batch[i] <= PUZZLE_71_MAX
    /\ Len(kg_batch) <= kg_n
    /\ kg_pc = "done" => Len(kg_batch) = kg_n

\* a full batch returned, holding both ends of the range, after a rejection
C18_Witness ==
    /\ kg_pc = "done"
    /\ kg_n = MaxBatch
    /\ \E i \in DOMAIN kg_batch : kg_batch[i] = PUZZLE_71_MIN
    /\ \E i \in DOMAIN kg_batch : kg_batch[i] = PUZZLE_71_MAX
    /\ kg_rejected # {}

(***************************************************************************)
(* C19: the rejection sampling is unbiased: a raw value makes a key        *)
(* exactly when it is below range_size, the key is PUZZLE_71_MIN plus that *)
(* value, every key of the range comes from exactly one raw value, and a   *)
(* rejected value makes no key.                                            *)
(***************************************************************************)
C19_RejectionSamplingUnbiased ==
    /\ Len(kg_raws) = Len(kg_batch)
    /\ \A i \in DOMAIN kg_raws :
          /\ kg_raws[i] \in 0..(PUZZLE_71_MAX - PUZZLE_71_MIN)
          /\ kg_batch[i] = PUZZLE_71_MIN + kg_raws[i]
    /\ \A r \in kg_rejected : r > PUZZLE_71_MAX - PUZZLE_71_MIN
    /\ \A k \in PUZZLE_71_MIN..PUZZLE_71_MAX :
          Cardinality({r \in randbits(range_bits) : Accept(r) /\ KeyOf(r) = k}) = 1

\* every raw value outside the range has been drawn and rejected, and the
\* batch is full all the same
C19_Witness ==
    /\ kg_rejected = {r \in randbits(range_bits) : r >= range_size}
    /\ kg_rejected # {}
    /\ Len(kg_batch) = MaxBatch
    /\ kg_n = MaxBatch

(***************************************************************************)
(* SpecRestarts: the Generator started, stopped and started again over the *)
(* same files: its start-up (the fake test hit, the total loaded), then an *)
(* exit from the loop.                                                     *)
(***************************************************************************)
InitRestarts ==
    /\ script = "generator"
    /\ clock = ClockStart
    /\ LimiterInit
    /\ CallersInit
    /\ FilesInit
    /\ ScanInit
    /\ KgIdle
    /\ starts = 1
    /\ SideIdle

NextRestarts ==
    \/ \E o \in FakeOutcomes : GenFakeHit(o)
    \/ GenBoot
    \/ GenInterruptCancelled
    \/ Restart

SpecRestarts == InitRestarts /\ [][NextRestarts]_vars

(***************************************************************************)
(* C20: over all the starts of the Generator, found_funds.log holds the    *)
(* fake test line at most once.                                            *)
(***************************************************************************)
C20_FakeLineAtMostOnce ==
    Cardinality({i \in DOMAIN genLog : genLog[i] = FAKE_LINE}) <= 1

(***************************************************************************)
(* C21: after every add() of the Generator's LogBuffer has returned, the   *)
(* buffer holds fewer than buffer_size lines.                              *)
(***************************************************************************)
C21_BufferBelowThreshold ==
    script = "generator" => Len(buffer) < BufferSize

(***************************************************************************)
(* C22: a Generator iteration that processed a batch goes through          *)
(* write_status and the flush exactly when need_status holds, and the      *)
(* cycle that returns to the next batch has persisted the status record    *)
(* and left no line in the buffer.                                         *)
(***************************************************************************)
C22_StatusCycleWhenDue ==
    [][script = "generator" =>
         /\ (pc = "process" /\ bidx > batch_len /\ pc' \in {"ws_status", "gen"}
                 /\ ws_ret' \notin HandlerRets) =>
               (pc' = "ws_status" <=> need_status(total_checked', now', last_status_time))
         /\ (pc = "g_flush" /\ pc' = "gen") =>
               /\ statusFile' = GenStatus(total_checked, total_start, eth_hits, btc_hits)
               /\ last_status_time' = now
               /\ buffer' = <<>>]_vars

\* C22 without its last part: what holds whatever the flush does
C22_CycleExactlyWhenDue ==
    [][script = "generator" =>
         /\ (pc = "process" /\ bidx > batch_len /\ pc' \in {"ws_status", "gen"}
                 /\ ws_ret' \notin HandlerRets) =>
               (pc' = "ws_status" <=> need_status(total_checked', now', last_status_time))
         /\ (pc = "g_flush" /\ pc' = "gen") =>
               /\ statusFile' = GenStatus(total_checked, total_start, eth_hits, btc_hits)
               /\ last_status_time' = now]_vars

(***************************************************************************)
(* SpecProgress: the session counter of the Generator, batch after batch,  *)
(* for every sequence of batch sizes in 1..GenBatchSize.                   *)
(***************************************************************************)
InitProgress ==
    /\ script = "generator"
    /\ clock = ClockStart
    /\ LimiterInit
    /\ CallersInit
    /\ FilesInit
    /\ ScanIdle
    /\ KgIdle
    /\ starts = 1
    /\ SideIdle

NextProgress == \E n \in 1..GenBatchSize : ProgressBatch(n)

SpecProgress == InitProgress /\ [][NextProgress]_vars

(***************************************************************************)
(* C23: whenever a batch takes the session counter to or across a multiple *)
(* of PrintInterval, the progress block is printed in that iteration.      *)
(***************************************************************************)
C23_PrintsAtEveryCrossing ==
    [][(total_checked' \div PrintInterval) > (total_checked \div PrintInterval) => printed']_vars

\* a batch has taken the counter past a multiple without landing on it, and
\* the block was printed
C23_Witness ==
    /\ printed
    /\ total_checked > PrintInterval
    /\ total_checked % PrintInterval > 0
    /\ batch_len > total_checked % PrintInterval

(***************************************************************************)
(* C24: at the end of a batch of the Puzzle Hunter the periodic status is  *)
(* written exactly when StatusInterval has passed since the last periodic  *)
(* write; the record is in the status file when the write is stamped; two  *)
(* stamps are at least StatusInterval apart; and nothing but a periodic    *)
(* write (no target-match write) moves the stamp.                          *)
(***************************************************************************)
C24_PeriodicStatus ==
    [][script = "puzzle" =>
         /\ (pc = "key" /\ kidx > Len(private_keys) /\ pc' \in {"ws_status", "gen"}
                 /\ ws_ret' \notin HandlerRets) =>
               (pc' = "ws_status" <=> now' - last_status_time >= StatusInterval)
         /\ pc = "stamp" =>
               statusFile = PuzStatus(keys_checked, total_start + keys_checked, last_key_hex,
                                      matches_found > 0)
         /\ last_status_time' # last_status_time =>
               /\ pc = "stamp"
               /\ last_status_time' = now
               /\ last_status_time' - last_status_time >= StatusInterval]_vars

\* a second periodic write is being stamped, after a target match wrote the
\* status in between
C24_Witness ==
    /\ script = "puzzle"
    /\ pc = "stamp"
    /\ last_status_time >= ClockStart
    /\ matches_found > 0
    /\ last_match_at > PuzBatchSize

(***************************************************************************)
(* SpecGather: the Generator from its start, batch after batch, with the   *)
(* balance checks of each candidate as two tasks; no interrupt, no error.  *)
(***************************************************************************)
InitGather ==
    /\ script = "generator"
    /\ clock = ClockStart
    /\ LimiterInit
    /\ CallersInit
    /\ FilesInit
    /\ ScanInit
    /\ KgIdle
    /\ starts = 1
    /\ SideIdle

NextGather ==
    \/ \E o \in FakeOutcomes : GenFakeHit(o)
    \/ GenBoot
    \/ GenBatch
    \/ GatherStart
    \/ \E a \in Assets, k \in 1..MaxSessionKeys, b \in GenBalances : CheckDone(a, k, b)
    \/ GatherReturn
    \/ GenAccount
    \/ WsStatus
    \/ WsTotal
    \/ \E j \in -1..BufferSize : GenStatusFlush(j)

SpecGather == InitGather /\ [][NextGather]_vars

(***************************************************************************)
(* C25: every balance check in flight belongs to the candidate             *)
(* process_batch is at; the two checks of a candidate are started          *)
(* together; and process_batch moves to the next candidate only when no    *)
(* check is in flight.                                                     *)
(***************************************************************************)
C25_OneCandidateInFlight ==
    [][script = "generator" =>
         /\ \A t \in inflight' : t[2] = total_checked' + bidx'
         /\ inflight' # inflight /\ inflight' \ inflight # {} =>
               inflight' = {<<a, Candidate>> : a \in Assets}
         /\ bidx' > bidx => inflight = {} /\ gather_done(Candidate, results)]_vars

\* the two checks of the second candidate of a batch are in flight together
C25_Witness ==
    /\ script = "generator"
    /\ bidx = 2
    /\ inflight = {<<"ETH", Candidate>>, <<"BTC", Candidate>>}
    /\ batch_eth_hits + batch_btc_hits > 0

(***************************************************************************)
(* C26: the hit lines handed to the log buffer are, asset by asset, as     *)
(* many as the checks of the processed candidates that came back with a    *)
(* balance above 0 (None and 0 add nothing), the hit counters count the    *)
(* same, and after a completed batch eth_hits + btc_hits is the number of  *)
(* hit lines added.  Stated step by step: what processing one candidate    *)
(* adds, and what completing a batch leaves.                               *)
(***************************************************************************)
LinesOf(seq, a) == Cardinality({i \in DOMAIN seq : seq[i][1] = a})
Positive(a) ==
    IF ResultOf(a, Candidate).kind = "float" /\ ResultOf(a, Candidate).num > 0 THEN 1 ELSE 0

C26_HitsMatchLines ==
    [][script = "generator" =>
         /\ bidx' = bidx + 1 =>
               /\ batch_eth_hits' = batch_eth_hits + Positive("ETH")
               /\ batch_btc_hits' = batch_btc_hits + Positive("BTC")
               /\ \A a \in Assets : LinesOf(added', a) = LinesOf(added, a) + Positive(a)
         /\ added' # added => bidx' = bidx + 1
         /\ total_checked' # total_checked =>
               /\ eth_hits' = eth_hits + batch_eth_hits
               /\ btc_hits' = btc_hits + batch_btc_hits
               /\ eth_hits' = LinesOf(added', "ETH")
               /\ btc_hits' = LinesOf(added', "BTC")
               /\ eth_hits' + btc_hits' = Len(added')]_vars

\* a batch is complete with one hit of each asset, after checks that came
\* back with None and with 0
C26_Witness ==
    /\ script = "generator"
    /\ pc = "gen"
    /\ eth_hits = 1
    /\ btc_hits = 1
    /\ total_checked = 2 * GenBatchSize
    /\ Len(added) = 2
    /\ \E r \in results : r[3] = NoValue
    /\ \E r \in results : r[3].kind = "float" /\ r[3].num = 0

(***************************************************************************)
(* C27: generate_key_batch drops the candidates whose generation raises    *)
(* and keeps all the others; every candidate kept is processed and the     *)
(* session counter grows by their number; a batch in which every           *)
(* generation failed changes no counter and writes no status.              *)
(***************************************************************************)
C27_FailedCandidatesSkipped ==
    [][script = "generator" =>
         /\ (pc = "gen" /\ pc' \in {"gen", "process"}) =>
               /\ batch_len' + gen_failed' = GenBatchSize
               /\ pc' = "process" <=> batch_len' > 0
               /\ batch_len' = 0 =>
                     UNCHANGED <<total_checked, eth_hits, btc_hits, statusFile, totalFile,
                                 ws_rec, buffer, genLog, last_status_time>>
         /\ total_checked' # total_checked =>
               /\ bidx = batch_len + 1
               /\ total_checked' = total_checked + (GenBatchSize - gen_failed)]_vars

\* a batch that lost a candidate to a generation failure has been processed
\* and counted
C27_Witness ==
    /\ script = "generator"
    /\ gen_failed > 0
    /\ gen_failed < GenBatchSize
    /\ total_checked = GenBatchSize - gen_failed
    /\ bidx = batch_len + 1

(***************************************************************************)
(* SpecDashboard: the dashboard server answering /api/status while the     *)
(* two status files change under it.                                       *)
(***************************************************************************)
InitDashboard ==
    /\ script \in Scripts
    /\ clock = ClockStart
    /\ LimiterInit
    /\ CallersInit
    /\ FilesInit
    /\ ScanIdle
    /\ KgIdle
    /\ starts = 1
    /\ SideIdle

NextDashboard ==
    \/ \E s \in Scripts : \E c \in DashContents(s) : DashFileChange(s, c)
    \/ ApiStatus

SpecDashboard == InitDashboard /\ [][NextDashboard]_vars

(***************************************************************************)
(* C28: every /api/status request is answered 200 with server_time and,    *)
(* for each scanner on its own, the record of its status file when that    *)
(* holds a JSON object, and an empty record when it is missing,            *)
(* unreadable or unparsable.                                               *)
(***************************************************************************)
Expected(file) == IF file.kind = "json" THEN [file EXCEPT !.kind = "dict"] ELSE EmptyDict

C28_StatusNeverFails ==
    [][requests' = requests + 1 =>
         /\ response'.status = 200
         /\ response'.server_time = clock'
         /\ response'.generator = Expected(dash_files["generator"])
         /\ response'.puzzle = Expected(dash_files["puzzle"])]_vars

\* a request was answered while the Generator's file was missing and the
\* Puzzle Hunter's held a record
C28_Witness ==
    /\ requests > 0
    /\ response.status = 200
    /\ dash_files["generator"] = AbsentFile
    /\ response.generator = EmptyDict
    /\ dash_files["puzzle"] = StatusDoc("puzzle", MaxSpeed)
    /\ response.puzzle = [kind |-> "dict", script |-> "puzzle", speed |-> MaxSpeed]

(***************************************************************************)
(* SpecHistory: the dashboard page fed one answer of /api/status after     *)
(* another.                                                                *)
(***************************************************************************)
InitHistory ==
    /\ script \in Scripts
    /\ clock = ClockStart
    /\ LimiterInit
    /\ CallersInit
    /\ FilesInit
    /\ ScanIdle
    /\ KgIdle
    /\ starts = 1
    /\ SideIdle

NextHistory ==
    \E gen \in DataOf("generator"), puz \in DataOf("puzzle") : updateDashboard(gen, puz)

SpecHistory == InitHistory /\ [][NextHistory]_vars

(***************************************************************************)
(* C29: after n calls of updateDashboard the three histories have length   *)
(* min(n, MAX_POINTS) and hold, in arrival order, the last samples pushed. *)
(***************************************************************************)
C29_HistoryKeepsNewest ==
    LET n == Len(samples)
        k == IF n < MAX_POINTS THEN n ELSE MAX_POINTS
    IN  /\ Len(speedHistoryLabels) = k
        /\ Len(speedHistoryGen) = k
        /\ Len(speedHistoryPuz) = k
        /\ \A i \in 1..k :
              /\ speedHistoryLabels[i] = samples[n - k + i].label
              /\ speedHistoryGen[i] = samples[n - k + i].gen
              /\ speedHistoryPuz[i] = samples[n - k + i].puz

\* more samples than the cap have arrived and the oldest are gone
C29_Witness ==
    /\ Len(samples) = MAX_POINTS + 2
    /\ Len(speedHistoryLabels) = MAX_POINTS
    /\ speedHistoryLabels[1] = Len(samples) - MAX_POINTS + 1
    /\ speedHistoryGen[1] # samples[1].gen

(***************************************************************************)
(* SpecEta: write_status of the Puzzle Hunter called with every session    *)
(* count, prior total and elapsed time within the bounds.                  *)
(***************************************************************************)
InitEta ==
    /\ script = "puzzle"
    /\ clock = ClockStart
    /\ LimiterInit
    /\ CallersInit
    /\ FilesInit
    /\ ScanIdle
    /\ KgIdle
    /\ starts = 1
    /\ SideIdle

NextEta ==
    \E kc \in 0..MaxSessionKeys, ts \in 0..PriorTotal, elapsed \in 0..MaxElapsed :
        WriteStatusEta(kc, PuzTotalKeys(ts, kc), elapsed)

SpecEta == InitEta /\ [][NextEta]_vars

(***************************************************************************)
(* C30: eta_full_range_seconds is (range_size - total_keys_tested) / speed *)
(* when the speed and the remainder are positive, and 0 when the speed is  *)
(* 0 or the total has reached the range size; remaining 500 at speed 10    *)
(* gives 50.                                                               *)
(***************************************************************************)
C30_EtaOfFullRange ==
    LET remaining == range_size - eta_in.total_keys
        speed == eta_out.speed
    IN  /\ eta_out.eta.den # 0
        /\ speed.den # 0
        /\ FracEq(speed, IF eta_in.elapsed > 0
                             THEN Frac(eta_in.keys_checked, eta_in.elapsed)
                             ELSE Frac(0, 1))
        /\ (speed.num > 0 /\ remaining > 0) =>
              \* eta * speed = remaining
              eta_out.eta.num * speed.num = remaining * eta_out.eta.den * speed.den
        /\ (speed.num = 0 \/ remaining <= 0) => eta_out.eta.num = 0
        /\ FracEq(eta_seconds(Frac(10, 1), 500, 0), Frac(50, 1))
        /\ FracEq(eta_seconds(Frac(0, 1), 500, 0), Frac(0, 1))

\* a call with a positive speed and keys left, and its ETA
C30_Witness ==
    /\ eta_in.elapsed > 0
    /\ eta_in.keys_checked > 1
    /\ eta_in.total_keys < range_size
    /\ eta_out.eta.num > 0
    /\ eta_out.eta.num * eta_in.keys_checked =
          (range_size - eta_in.total_keys) * eta_in.elapsed * eta_out.eta.den

(***************************************************************************)
(* C34: a wait() that is refused at the ceiling leaves total_calls and     *)
(* last_call as they were and leaves the lock free; the count never goes   *)
(* down, so from then on every caller that reaches the ceiling check is    *)
(* refused too, without sleeping.                                          *)
(***************************************************************************)
C34_RefusalLeavesLimiterAlone ==
    [][/\ total_calls' >= total_calls
       /\ \A c \in Callers :
             /\ (cpc[c] = "check" /\ cpc'[c] = "idle") =>
                   /\ cresult'[c] = "refused"
                   /\ total_calls' = total_calls
                   /\ last_call' = last_call
                   /\ lock' = NoHolder
             /\ (total_calls >= MaxCalls /\ cpc[c] = "check" /\ cpc'[c] # "check") =>
                   /\ cpc'[c] = "idle"
                   /\ cresult'[c] = "refused"]_vars

\* every caller has been refused in turn, the lock is free and the count
\* is at the ceiling
C34_Witness ==
    /\ \A c \in Callers : cresult[c] = "refused" /\ cpc[c] = "idle"
    /\ lock = NoHolder
    /\ total_calls = MaxCalls

(***************************************************************************)
(* C35: in the Puzzle Hunter's found_funds.log every match has one block   *)
(* written before its verification starts, and the verification adds one   *)
(* further block exactly when it returned a balance greater than 0: the    *)
(* log holds one block per counted match, each followed by at most one     *)
(* block of the verification, and once check_btc_balance has ended the log *)
(* ends with a verification block iff the returned balance is positive.    *)
(***************************************************************************)
C35_BlocksPerMatch ==
    script = "puzzle" /\ pc # "boot" =>
        /\ Len(SelectSeq(puzLog, LAMBDA l : l = "match")) = matches_found
        /\ \A i \in DOMAIN puzLog :
              puzLog[i] = "verified" => i > 1 /\ puzLog[i - 1] = "match"
        /\ pc = "verify" => puzLog[Len(puzLog)] = "match"
        /\ call.ended \notin {"none", "running"} =>
              /\ puzLog # <<>>
              /\ puzLog[Len(puzLog)] = "verified" <=> (balance.kind = "float" /\ balance.num > 0)

\* two matches of one session: the first verified with a positive balance
\* (two blocks), the second one's verification returned no value (one block)
C35_Witness ==
    /\ script = "puzzle"
    /\ puzLog = <<"match", "verified", "match">>
    /\ call.ended = "gave_up"
    /\ balance = NoValue
    /\ matches_found = 2

(***************************************************************************)
(* C33: within one Puzzle Hunter session the found flag of the status file *)
(* never goes back: once the file holds found = true, every record the     *)
(* session writes afterwards (periodic, on a match, final) has found =     *)
(* true, and the file holds found = true only after a match was counted.   *)
(* The file holds the last record written and ws_rec is the record of the  *)
(* write_status call in progress or, after it, of the last call.           *)
(***************************************************************************)
C33_FoundFlagMonotonic ==
    script = "puzzle" =>
        /\ (statusFile.kind = "json" /\ statusFile.found) =>
              /\ matches_found > 0
              /\ pc \in {"ws_status", "ws_total"} => ws_rec.found
        /\ (ws_rec.kind = "json" /\ ws_rec.found) => matches_found > 0

\* the final record of an interrupted session, written with found = true
\* after keys that followed the match
C33_Witness ==
    /\ script = "puzzle"
    /\ stopped.cause = "interrupt"
    /\ stopped.writes = 1
    /\ statusFile.kind = "json"
    /\ statusFile.found
    /\ statusFile.keys_checked > last_match_at
    /\ matches_found = 1

(***************************************************************************)
(* SpecBase58: base58_encode called with every byte string of up to        *)
(* MaxDataLen bytes over ByteValues.                                       *)
(***************************************************************************)
MaxDataLen == 2
ByteValues == {0, 1, 2, 57, 58, 59, 127, 128, 254, 255}
AllData == UNION {[1..n -> ByteValues] : n \in 0..MaxDataLen}

InitBase58 ==
    /\ script = "puzzle"
    /\ clock = ClockStart
    /\ LimiterInit
    /\ CallersInit
    /\ FilesInit
    /\ ScanIdle
    /\ KgIdle
    /\ starts = 1
    /\ SideIdle

NextBase58 == \E data \in AllData : Base58Encode(data)

SpecBase58 == InitBase58 /\ [][NextBase58]_vars

\* the number of zero bytes a byte string starts with
RECURSIVE ZeroPrefix(_)
ZeroPrefix(data) ==
    IF data # <<>> /\ data[1] = 0 THEN 1 + ZeroPrefix(SubSeq(data, 2, Len(data))) ELSE 0

\* the value of a text read as a base-58 number over the alphabet
DigitOf(ch) == (CHOOSE i \in DOMAIN alphabet : alphabet[i] = ch) - 1
RECURSIVE Base58Value(_)
Base58Value(text) ==
    IF text = <<>> THEN 0
    ELSE Base58Value(SubSeq(text, 1, Len(text) - 1)) * 58 + DigitOf(text[Len(text)])

\* the shortest big-endian byte string of a number (none for 0)
RECURSIVE to_bytes(_)
to_bytes(num) == IF num = 0 THEN <<>> ELSE to_bytes(num \div 256) \o <<num % 256>>

\* the decoding: one zero byte per leading '1', then the bytes of the value
\* of the rest
OnesPrefix(text) ==
    IF \A i \in DOMAIN text : text[i] = "1" THEN Len(text)
    ELSE (CHOOSE i \in DOMAIN text : text[i] # "1" /\ \A j \in 1..(i - 1) : text[j] = "1") - 1
base58_decode(text) ==
    [i \in 1..OnesPrefix(text) |-> 0]
        \o to_bytes(Base58Value(SubSeq(text, OnesPrefix(text) + 1, Len(text))))

(***************************************************************************)
(* C31: base58_encode is reversible: its text starts with exactly as many  *)
(* '1' as the input has leading zero bytes, the rest is the base-58        *)
(* numeral of the input's big-endian value, decoding gives the input back, *)
(* and no other byte string has the same text; bytes([0, 0, 1, 2, 3])      *)
(* starts with exactly two '1'.                                            *)
(***************************************************************************)
C31_Base58Reversible ==
    LET z == ZeroPrefix(b58_in)
        rest == SubSeq(b58_out, z + 1, Len(b58_out))
    IN  /\ Len(b58_out) >= z
        /\ \A i \in 1..z : b58_out[i] = "1"
        /\ rest # <<>> => rest[1] # "1"
        /\ \A i \in DOMAIN rest : \E d \in DOMAIN alphabet : alphabet[d] = rest[i]
        /\ Base58Value(rest) = from_bytes(b58_in)
        /\ base58_decode(b58_out) = b58_in
        /\ \A other \in AllData : base58_encode(other) = b58_out => other = b58_in
        /\ OnesPrefix(base58_encode(<<0, 0, 1, 2, 3>>)) = 2

\* an input with a leading zero byte before a non-zero byte
C31_Witness ==
    /\ Len(b58_in) = 2
    /\ b58_in[1] = 0 /\ b58_in[2] = 255
    /\ b58_out = <<"1", "5", "Q">>

(***************************************************************************)
(* SpecPaths: the status files at both locations change at any time, the   *)
(* dashboard is started once and then answers /api/status requests.        *)
(***************************************************************************)
InitPaths ==
    /\ script \in Scripts
    /\ clock = ClockStart
    /\ LimiterInit
    /\ CallersInit
    /\ FilesInit
    /\ ScanIdle
    /\ KgIdle
    /\ starts = 1
    /\ SideIdle

NextPaths ==
    \/ \E s \in Scripts, l \in Locations : \E c \in PathContents(s) : PathFileChange(s, l, c)
    \/ DashImport
    \/ PathApiStatus

SpecPaths == InitPaths /\ [][NextPaths]_vars

\* the location the dashboard is bound to by what existed at its start
StartLocation(s) == IF sibling_at_start[s] THEN "sibling" ELSE "opt"

(***************************************************************************)
(* C32: the dashboard chooses each status path once, when it starts: the   *)
(* sibling path if that file exists then, the /opt path otherwise.  The    *)
(* choice never changes afterwards, and every /api/status request is       *)
(* answered from the files at the chosen paths, so a sibling file created  *)
(* after the start is not read.                                            *)
(***************************************************************************)
C32_PathsResolvedOnce ==
    [][/\ dash_started' =>
             \A s \in Scripts : status_path'[s] = StartLocation(s)'
       /\ dash_started =>
             /\ dash_started'
             /\ status_path' = status_path
             /\ sibling_at_start' = sibling_at_start
       /\ path_requests' = path_requests + 1 =>
             /\ path_response'.status = 200
             /\ path_response'.generator =
                    Expected(FileAt("generator", StartLocation("generator")))
             /\ path_response'.puzzle =
                    Expected(FileAt("puzzle", StartLocation("puzzle")))]_vars

\* the Generator's sibling file did not exist at the start and was created
\* later: the request is answered from the /opt file
C32_Witness ==
    /\ dash_started
    /\ path_requests > 0
    /\ ~sibling_at_start["generator"]
    /\ FileAt("generator", "sibling").kind = "json"
    /\ FileAt("generator", "opt").kind = "json"
    /\ FileAt("generator", "sibling") # FileAt("generator", "opt")
    /\ path_response.generator = Expected(FileAt("generator", "opt"))

=============================================================================
